---- MODULE Spec2Model ----
(***************************************************************************)
(* A model of the Tempotown orchestrator client of crush-modules            *)
(* (package tempotown, listed in src/tempotown/README.md from line 201).    *)
(*                                                                         *)
(* The hook is a set of goroutines around one mutex:                        *)
(*   - Start            the status projector (the host's event consumer)    *)
(*   - connectionLoop   the connection supervisor (connect, initialize,     *)
(*                      registerAgent inlined)                              *)
(*   - readLoop         one reader goroutine per connect                    *)
(*   - pollFeedbackLoop the feedback poller                                 *)
(*   - one detached goroutine per report_status                             *)
(* Every step of the model is one atomic operation of the code: an atomic   *)
(* load/store/add, one critical section of h.mu, one socket operation or    *)
(* one channel operation.                                                   *)
(***************************************************************************)
EXTENDS Integers, Sequences, FiniteSets, TLC

VARIABLES
    cfg,        \* the Config handed to NewTempotownHook
    hook,       \* what NewTempotownHook returned: "nil" or "hook"
    hcfg,       \* h.cfg, the configuration the hook keeps (defaults applied)
    started,    \* number of Start calls made by the host
    ctxDone,    \* the lifetime context is cancelled
    proj,       \* the Start goroutine: "none", "loop", "returned"
    events,     \* the host's subscription channel (events not yet received)
    nInjected,  \* number of events the host has put on the channel
    sup,        \* connectionLoop: [pc, t] with t the local conn of connect()
    readers,    \* readers[r]: the readLoop goroutine started by the r-th connect
    poller,     \* pollFeedbackLoop: [pc, id, n, k]
    nTicks,     \* number of ticker ticks the poller has handled
    calls,      \* calls[c]: the activation of call() made by caller c
    hconn,      \* h.conn    (0 is nil)
    encoder,    \* h.encoder (0 is nil), named by the transport it writes to
    decoder,    \* h.decoder (0 is nil), named by the transport it reads from
    requestID,  \* h.requestID
    pending,    \* the keys of h.pending
    connected,  \* h.connected
    agentID,    \* h.agentID
    phase,      \* h.phase
    feedbackCh, \* h.feedbackCh, a buffered channel
    consumed,   \* the item the host read last from FeedbackCh()
    trans,      \* the transports dialled so far, by dial number
    nConn,      \* number of transports dialled
    faults,     \* number of faults the environment has injected
    enqBase,    \* len: Len(feedbackCh) when the poller's loop over the items
                \* began; quiet: the host has not read since
    evClosed,   \* the host has closed the subscription channel
    stopped,    \* a call of Stop() has returned
    chClosed,   \* h.feedbackCh is closed (no statement of the package closes it)
    mu,         \* h.mu: "held" while a goroutine is blocked in Encode inside
                \* its critical section, else "free" (every other critical
                \* section is one step)
    agent,      \* the agent-status hook: its fields, the message or tool
                \* name of the last call made on it (msg) and the number of
                \* calls so far (n)
    prompts,    \* the periodic-prompts hook, its cron callback and the
                \* calls of SetEnabled made on it
    mock,       \* the mock LLM server, the requests in its handler and the
                \* responses it has given since the last Sequence()
    registry    \* the sub-agent registry, the ReloadAll in progress and the
                \* Enabled value last set for each agent

vars == <<cfg, hook, hcfg, started, ctxDone, proj, events, nInjected, sup,
          readers, poller, nTicks, calls, hconn, encoder, decoder, requestID,
          pending, connected, agentID, phase, feedbackCh, consumed, trans,
          nConn, faults, enqBase, evClosed, stopped, chClosed, mu, agent,
          prompts, mock, registry>>

----------------------------------------------------------------------------
(* Bounds of the model: how much the environment does.                      *)

\* Faults the environment injects: a failed dial, a peer closing, an RPC or
\* tool error, an unsolicited or malformed frame.
MaxFaults == 1
\* Message events the host injects.
MaxEvents == 1
\* Ticker ticks the poller handles.
MaxPolls == 1
\* Tool calls carried by one message event.
MaxToolCalls == 2
\* Message events the host injects where the event loop alone is studied.
MaxBurst == 2
\* Ticks the poller handles where the order of feedback is studied.
MaxRounds == 2
\* Calls of Start the host makes on one hook.
MaxStarts == 2

\* Messages the host publishes to the agent-status hook.
MaxMessages == 3
\* Direct calls of addRecentTool on the agent-status hook.
MaxAdds == 11
\* Runs of the cron callback of the periodic-prompts hook.
MaxFires == 3
\* Calls of SetEnabled on the periodic-prompts hook.
MaxToggles == 3
\* Chat requests sent to the mock LLM server.
MaxRequests == 3
\* Calls of Sequence() and On() that configure the mock LLM server.
MaxSetups == 2
\* Calls of ReloadAll on the sub-agent registry.
MaxReloads == 2
\* Calls of SetEnabled on the sub-agent registry.
MaxSets == 2

\* One detached report_status call per event.
MaxTasks == IF MaxBurst > MaxEvents THEN MaxBurst ELSE MaxEvents

\* Every dial after the first follows a failed attempt or a lost connection.
MaxConn == MaxFaults + 1

----------------------------------------------------------------------------
(* Program constants.                                                       *)

FeedbackCap == 10
PollLimit == 10
DefaultPollSeconds == 5
DefaultRole == "coder"

Transports == 1..MaxConn
NoTransport == 0

----------------------------------------------------------------------------
(* Configuration and construction.                                          *)

Configs ==
    [Endpoint : {"", "localhost:9999"},
     Role : {"", "reviewer"},
     Capabilities : {<<>>, <<"code", "test">>},
     PollIntervalSeconds : {0, 1}]

(* NewTempotownHook: an empty endpoint disables the hook (nil, nil);        *)
(* otherwise the defaults of role and poll interval are applied.            *)
NoConfig ==
    [Endpoint |-> "", Role |-> "", Capabilities |-> <<>>, PollIntervalSeconds |-> 0]

NewTempotownHookCfg(c) ==
    [Endpoint |-> c.Endpoint,
     Role |-> IF c.Role = "" THEN DefaultRole ELSE c.Role,
     Capabilities |-> c.Capabilities,
     PollIntervalSeconds |->
        IF c.PollIntervalSeconds = 0 THEN DefaultPollSeconds
        ELSE c.PollIntervalSeconds]

\* A constructor that builds a hook whatever the endpoint is.
NewTempotownHookAnyEndpoint(c) ==
    [hook |-> "hook", err |-> "nil", cfg |-> NewTempotownHookCfg(c)]

NewTempotownHook(c) ==
    IF c.Endpoint = ""
    THEN [hook |-> "nil", err |-> "nil", cfg |-> NoConfig]
    ELSE [hook |-> "hook", err |-> "nil", cfg |-> NewTempotownHookCfg(c)]

\* The factory init() registers, for a configuration that loads: the error
\* of the constructor, else its hook, nil included.
RegisteredFactory(c) ==
    IF NewTempotownHook(c).err # "nil" THEN [hook |-> "nil", err |-> NewTempotownHook(c).err]
    ELSE [hook |-> NewTempotownHook(c).hook, err |-> "nil"]

----------------------------------------------------------------------------
(* Message events and their projection to report_status (handleEvent).      *)

ToolNames == {"grep", "ls"}
ToolCallT == [ID : {"t1", "t2"}, Name : ToolNames, Finished : BOOLEAN]

SeqsUpTo(S, n) == UNION {[1..k -> S] : k \in 0..n}

EventTypes == {"created", "updated", "deleted"}
Roles == {"user", "assistant", "system", "tool"}

AllEvents ==
    [Type : EventTypes, Role : Roles, ToolCalls : SeqsUpTo(ToolCallT, MaxToolCalls)]

\* status is the text as the pieces fmt.Sprintf joins; details is nil (the
\* empty sequence) or one map {tool, tool_id}.
Report(status, progress, details) ==
    [status |-> status, progress |-> progress, details |-> details]

NoReport == <<>>

\* A loop that keeps the last tool call with Finished = false.
LastUnfinished(tcs, i) ==
    LET S == {j \in i..Len(tcs) : ~tcs[j].Finished} IN
    IF S = {} THEN 0 ELSE CHOOSE j \in S : \A k \in S : k <= j

\* The index of the first tool call with Finished = false, 0 when none:
\* the for loop of handleEvent.
RECURSIVE FirstUnfinished(_, _)
FirstUnfinished(tcs, i) ==
    IF i > Len(tcs) THEN 0
    ELSE IF ~tcs[i].Finished THEN i
    ELSE FirstUnfinished(tcs, i + 1)

(* handleEvent after its connected check: the reports (none or one) that    *)
(* the event makes it hand to reportStatus.                                 *)
HandleEventReports(ev) ==
    IF ev.Type = "created" THEN
        IF ev.Role = "user" THEN <<Report(<<"processing user input">>, 0, <<>>)>>
        ELSE IF ev.Role = "assistant" THEN <<Report(<<"generating response">>, 50, <<>>)>>
        ELSE NoReport
    ELSE IF ev.Type = "updated" THEN
        IF ev.Role = "assistant" THEN
            LET i == FirstUnfinished(ev.ToolCalls, 1) IN
            IF i # 0
            THEN <<Report(<<"running tool: ", ev.ToolCalls[i].Name>>, 50,
                          <<[tool |-> ev.ToolCalls[i].Name,
                             tool_id |-> ev.ToolCalls[i].ID]>>)>>
            ELSE <<Report(<<"response complete">>, 100, <<>>)>>
        ELSE NoReport
    ELSE NoReport

----------------------------------------------------------------------------
(* Frames.                                                                  *)

\* A frame written by the client: id 0 is a Notification (no id field).
Frame(id, req) ==
    [id |-> id, method |-> req.method, tool |-> req.tool, args |-> req.args]

Req(method, tool, args) == [method |-> method, tool |-> tool, args |-> args]

NoParams == [nil |-> TRUE]
NoReq == Req("", "", NoParams)

InitializeReq ==
    Req("initialize", "",
        [protocolVersion |-> "2024-11-05",
         clientInfo |-> [name |-> "crush", version |-> "1.0.0"]])

InitializedNotif == Frame(0, Req("initialized", "", NoParams))

RegisterReq ==
    Req("tools/call", "register_agent",
        [role |-> hcfg.Role, capabilities |-> hcfg.Capabilities])

ReportStatusReq(rep) == Req("tools/call", "report_status", rep)

PollReq == Req("tools/call", "get_pending_feedback", [limit |-> PollLimit])

\* A frame written by the peer. kind: "result", "toolerr" (a result with
\* isError true), "error" (a JSON-RPC error object), "notif" (no id),
\* "strid" (a response whose id is a JSON string, the digits of id),
\* "bad" (not JSON). text is the first content block; n the number of items
\* when text is a feedback list.
Resp(id, kind, text, n) == [id |-> id, kind |-> kind, text |-> text, n |-> n]

AgentText == "{agent_id:A-1}"
ItemsText == "{items:[...]}"

\* json.Unmarshal of the register_agent text into {agent_id}.
ParseAgentID(text) == IF text = AgentText THEN "A-1" ELSE ""

----------------------------------------------------------------------------
(* Callers of call(), and the activation record of one call.                *)

SUP == <<"sup", 0>>
POLL == <<"poll", 0>>
StatusTask(i) == <<"status", i>>
StatusTasks == {StatusTask(i) : i \in 1..MaxTasks}
Callers == {SUP, POLL} \cup StatusTasks

\* st: "none"   no call in progress
\*     "alloc"  before requestID.Add(1)
\*     "write"  has its id, before the critical section that installs the
\*              pending entry and encodes the request
\*     "failed" the encode returned an error, before the delete and return
\*     "wait"   in the select on ctx.Done, the slot and the 30 s timer
\* resp is the buffer of the call's channel ch (capacity 1).
NoCall == [st |-> "none", id |-> 0, req |-> NoReq, resp |-> <<>>]

CallStart(req) == [st |-> "alloc", id |-> 0, req |-> req, resp |-> <<>>]

FreshTransport ==
    [cClosed |-> FALSE, pClosed |-> FALSE, stalled |-> FALSE,
     out |-> <<>>, inq |-> <<>>, ans |-> {}]

\* Encode on transport e does not return: the peer has stopped reading, the
\* socket buffers are full and neither end has closed. The package sets no
\* write deadline.
Blocking(e) == trans[e].stalled /\ ~trans[e].cClosed /\ ~trans[e].pClosed

\* What Encode can do on transport e: a socket the client closed fails; a
\* socket the peer closed takes the bytes and loses them, or fails.
WriteOutcomes(e) ==
    IF trans[e].cClosed THEN {"err"}
    ELSE IF trans[e].pClosed THEN {"lost", "err"}
    ELSE {"ok"}

\* The transports after Encode(frame) on e with outcome w.
Written(e, frame, w) ==
    IF w = "ok" THEN [trans EXCEPT ![e].out = Append(@, frame)] ELSE trans

\* conn.Close() by the client.
Closed(t) == [trans EXCEPT ![t].cClosed = TRUE]

\* A transport is held while the hook's encoder or decoder, the local conn
\* of connect or a reader inside Decode names it. Of a transport nobody
\* holds, nothing can be written or read any more: the model forgets its
\* traffic and keeps its two closed flags.
Held(t, enc, dec, loc, rds) ==
    \/ t \in {enc, dec, loc}
    \/ \E r \in Transports : rds[r].d = t

Collect(tr, enc, dec, loc, rds) ==
    [t \in Transports |->
        IF Held(t, enc, dec, loc, rds) THEN tr[t]
        ELSE [tr[t] EXCEPT !.out = <<>>, !.inq = <<>>, !.ans = {}]]

-----------------------------------------------------------------------------
(* The agent-status hook (package agentstatus).                             *)

\* The capacity of h.recentTools.
RecentCap == 10

\* A string is modelled by its length and by whether it ends in the "..."
\* that truncateString appends.
Str(n) == [len |-> n, dots |-> FALSE]

truncateString(s, maxLen) ==
    IF s.len <= maxLen THEN s
    ELSE IF maxLen <= 3 THEN Str(maxLen)
    ELSE [len |-> (maxLen - 3) + 3, dots |-> TRUE]

\* The messages the hook is given: a text at, and one byte over, the limit
\* of the task; tool calls by name (the hook reads no tool call id); tool
\* results with and without an error.
AgentMessages ==
    [Type : {"created", "updated"}, Role : {"user", "assistant", "tool"},
     Content : {Str(100), Str(101)}, ToolCalls : {<<>>},
     ToolResults : SeqsUpTo([IsError : BOOLEAN, Content : {Str(201)}], 1)]
    \cup [Type : {"created", "updated"}, Role : {"assistant"},
          Content : {Str(0)}, ToolResults : {<<>>},
          ToolCalls : SeqsUpTo([Name : ToolNames, Finished : BOOLEAN], MaxToolCalls)]

NewAgentStatusHook ==
    [currentStatus |-> "idle", currentTask |-> Str(0), activeTool |-> "",
     recentTools |-> <<>>, toolCounts |-> [t \in ToolNames |-> 0],
     lastError |-> Str(0), msg |-> [Type |-> "none"], n |-> 0]

\* h.recentTools after addRecentTool(name): the oldest entry goes when the
\* list is full, then name is appended unless it equals the last entry.
addRecentTool(recent, name) ==
    LET kept == IF Len(recent) >= RecentCap THEN Tail(recent) ELSE recent IN
    IF Len(kept) > 0 /\ kept[Len(kept)] = name THEN kept
    ELSE Append(kept, name)

\* For a tool message the last tool result with an error sets h.lastError.
handleMessageCreated(h, msg) ==
    LET RECURSIVE LastErrorAfter(_, _)
        LastErrorAfter(e, i) ==
            IF i > Len(msg.ToolResults) THEN e
            ELSE LastErrorAfter(IF msg.ToolResults[i].IsError
                                THEN truncateString(msg.ToolResults[i].Content, 200)
                                ELSE e,
                                i + 1)
    IN
    IF msg.Role = "user"
    THEN [h EXCEPT !.currentStatus = "thinking",
                   !.currentTask = truncateString(msg.Content, 100),
                   !.activeTool = "",
                   !.lastError = Str(0)]
    ELSE IF msg.Role = "assistant"
    THEN [h EXCEPT !.currentStatus =
                       IF Len(msg.ToolCalls) > 0 THEN "working" ELSE "idle"]
    ELSE IF msg.Role = "tool"
    THEN [h EXCEPT !.lastError = LastErrorAfter(@, 1),
                   !.currentStatus = "thinking",
                   !.activeTool = ""]
    ELSE h

\* TrackToolCalls is the first loop, from tool call i on; the second loop
\* finds whether all tool calls are finished.
handleMessageUpdated(h, msg) ==
    LET tcs == msg.ToolCalls
        RECURSIVE TrackToolCalls(_, _)
        TrackToolCalls(g, i) ==
            IF i > Len(tcs) THEN g
            ELSE TrackToolCalls(
                    IF ~tcs[i].Finished
                    THEN [g EXCEPT !.currentStatus = "working",
                                   !.activeTool = tcs[i].Name,
                                   !.recentTools = addRecentTool(@, tcs[i].Name),
                                   !.toolCounts[tcs[i].Name] = @ + 1]
                    ELSE IF g.activeTool = tcs[i].Name
                    THEN [g EXCEPT !.activeTool = ""]
                    ELSE g,
                    i + 1)
    IN
    IF msg.Role # "assistant" THEN h
    ELSE IF Len(tcs) > 0 /\ \A i \in 1..Len(tcs) : tcs[i].Finished
    THEN [TrackToolCalls(h, 1) EXCEPT !.currentStatus = "thinking"]
    ELSE TrackToolCalls(h, 1)

\* handleEvent(event) for a message the host publishes.
AgentHandleEvent ==
    /\ agent.n < MaxMessages
    /\ \E msg \in AgentMessages :
        agent' = [(IF msg.Type = "created" THEN handleMessageCreated(agent, msg)
                   ELSE handleMessageUpdated(agent, msg))
                  EXCEPT !.msg = msg, !.n = @ + 1]
    /\ UNCHANGED <<cfg, hook, hcfg, started, ctxDone, proj, events, nInjected,
                   sup, readers, poller, nTicks, calls, hconn, encoder,
                   decoder, requestID, pending, connected, agentID, phase,
                   feedbackCh, consumed, trans, nConn, faults, enqBase,
                   evClosed, stopped, chClosed, mu, prompts, mock, registry>>

\* A direct call of addRecentTool(name), as the package's test makes it.
AgentAddRecentTool ==
    /\ agent.n < MaxAdds
    /\ \E name \in ToolNames :
        agent' = [agent EXCEPT !.recentTools = addRecentTool(@, name),
                               !.msg = [Type |-> "add", Name |-> name],
                               !.n = @ + 1]
    /\ UNCHANGED <<cfg, hook, hcfg, started, ctxDone, proj, events, nInjected,
                   sup, readers, poller, nTicks, calls, hconn, encoder,
                   decoder, requestID, pending, connected, agentID, phase,
                   feedbackCh, consumed, trans, nConn, faults, enqBase,
                   evClosed, stopped, chClosed, mu, prompts, mock, registry>>

-----------------------------------------------------------------------------
(* The periodic-prompts hook (package periodicprompts).                     *)

\* The fields of prompts. built: NewHook has run; app: the hook was given a host app; hostSub: the app has
\* a prompt submitter; nPrompts: prompts configured; run: Start has not
\* run ("none"), waits for ctx.Done ("running") or ended the process
\* ("overflow"); fire: the cron callback is between two runs ("idle") or has
\* read the flag as set and is in executePrompt ("exec"); saw: the flag as
\* the last callback read it; set: the last SetEnabled(arg) "returned" or
\* ended the process ("overflow").

\* h.logger(): with an app the method calls itself, without end, until the
\* goroutine's stack overflows and the runtime ends the process; without
\* one it returns slog.Default().
logger(h) == IF h.app THEN "overflow" ELSE "default"

\* NewHook(app, cfg): the hook starts disabled.
PromptsNewHook ==
    /\ ~prompts.built
    /\ \E app, hostSub \in BOOLEAN : \E n \in 0..1 :
        prompts' = [prompts EXCEPT !.built = TRUE, !.app = app,
                                   !.hostSub = app /\ hostSub,
                                   !.nPrompts = n, !.enabled = FALSE]
    /\ UNCHANGED <<cfg, hook, hcfg, started, ctxDone, proj, events, nInjected,
                   sup, readers, poller, nTicks, calls, hconn, encoder,
                   decoder, requestID, pending, connected, agentID, phase,
                   feedbackCh, consumed, trans, nConn, faults, enqBase,
                   evClosed, stopped, chClosed, mu, agent, mock, registry>>

\* Start(ctx) up to <-ctx.Done(): it takes the submitter of the app, warns
\* when there is none, and logs every prompt it schedules or rejects.
PromptsStart ==
    /\ prompts.built /\ prompts.run = "none" /\ "overflow" \notin {prompts.run, prompts.fire, prompts.set}
    /\ LET sub == prompts.app /\ prompts.hostSub
           logs == (prompts.app /\ ~sub) \/ prompts.nPrompts > 0 IN
        prompts' = [prompts EXCEPT
                       !.promptSubmitter = sub,
                       !.run = IF logs /\ logger(prompts) = "overflow"
                               THEN "overflow" ELSE "running"]
    /\ UNCHANGED <<cfg, hook, hcfg, started, ctxDone, proj, events, nInjected,
                   sup, readers, poller, nTicks, calls, hconn, encoder,
                   decoder, requestID, pending, connected, agentID, phase,
                   feedbackCh, consumed, trans, nConn, faults, enqBase,
                   evClosed, stopped, chClosed, mu, agent, mock, registry>>

\* A cron callback that hands the prompt to the host whatever the flag says.
PromptsExecuteAlways ==
    /\ prompts.run = "running" /\ prompts.nPrompts > 0
    /\ prompts.nFires <= MaxFires
    /\ prompts' = [prompts EXCEPT !.fire = "idle", !.submitted = @ + 1]
    /\ UNCHANGED <<cfg, hook, hcfg, started, ctxDone, proj, events, nInjected,
                   sup, readers, poller, nTicks, calls, hconn, encoder,
                   decoder, requestID, pending, connected, agentID, phase,
                   feedbackCh, consumed, trans, nConn, faults, enqBase,
                   evClosed, stopped, chClosed, mu, agent, mock, registry>>

\* The cron callback of a prompt: it reads h.enabled under the read lock and
\* returns when the hook is disabled.
PromptsFire ==
    /\ prompts.run = "running" /\ prompts.nPrompts > 0
    /\ prompts.fire = "idle" /\ "overflow" \notin {prompts.run, prompts.fire, prompts.set}
    /\ prompts.nFires < MaxFires
    /\ prompts' = [prompts EXCEPT !.saw = prompts.enabled,
                                  !.nFires = @ + 1,
                                  !.fire = IF prompts.enabled THEN "exec" ELSE "idle"]
    /\ UNCHANGED <<cfg, hook, hcfg, started, ctxDone, proj, events, nInjected,
                   sup, readers, poller, nTicks, calls, hconn, encoder,
                   decoder, requestID, pending, connected, agentID, phase,
                   feedbackCh, consumed, trans, nConn, faults, enqBase,
                   evClosed, stopped, chClosed, mu, agent, mock, registry>>

\* executePrompt: without a submitter it warns and returns; it reads the
\* file and logs the error, or logs the prompt and submits it.
PromptsExecute ==
    /\ prompts.fire = "exec" /\ "overflow" \notin {prompts.run, prompts.fire, prompts.set}
    /\ \E fileOk \in BOOLEAN :
        prompts' =
            IF logger(prompts) = "overflow"
            THEN [prompts EXCEPT !.fire = "overflow"]
            ELSE IF prompts.promptSubmitter /\ fileOk
            THEN [prompts EXCEPT !.fire = "idle", !.submitted = @ + 1]
            ELSE [prompts EXCEPT !.fire = "idle"]
    /\ UNCHANGED <<cfg, hook, hcfg, started, ctxDone, proj, events, nInjected,
                   sup, readers, poller, nTicks, calls, hconn, encoder,
                   decoder, requestID, pending, connected, agentID, phase,
                   feedbackCh, consumed, trans, nConn, faults, enqBase,
                   evClosed, stopped, chClosed, mu, agent, mock, registry>>

\* SetEnabled(b): it stores the flag under the lock and then logs.
PromptsSetEnabled ==
    /\ prompts.built /\ "overflow" \notin {prompts.run, prompts.fire, prompts.set}
    /\ prompts.nSet < MaxToggles
    /\ \E b \in BOOLEAN :
        prompts' = [prompts EXCEPT
                       !.enabled = b, !.arg = b, !.nSet = @ + 1,
                       !.set = IF logger(prompts) = "overflow"
                               THEN "overflow" ELSE "returned"]
    /\ UNCHANGED <<cfg, hook, hcfg, started, ctxDone, proj, events, nInjected,
                   sup, readers, poller, nTicks, calls, hconn, encoder,
                   decoder, requestID, pending, connected, agentID, phase,
                   feedbackCh, consumed, trans, nConn, faults, enqBase,
                   evClosed, stopped, chClosed, mu, agent, mock, registry>>

-----------------------------------------------------------------------------
(* The mock LLM server (package mockllm).                                   *)

\* NewServer(), with two goroutines of the HTTP server that run
\* handleRequest at one time. handlers: [contains, respond]; callSequence: the responses
\* by name; requests: the log, by the text of the last user message;
\* inReq[c]: the text of the request that goroutine c has logged and not
\* yet answered, or "" ; given: who was answered what since the last
\* Sequence(); nReq, nSetup: requests and configuration calls so far.
NewServer ==
    [handlers |-> <<>>, callSequence |-> <<>>, callIndex |-> 0,
     requests |-> <<>>, inReq |-> [c \in {"c1", "c2"} |-> ""],
     given |-> <<>>, nReq |-> 0, nSetup |-> 0]

\* Sequence(responses...).
MockSequence ==
    /\ mock.nSetup < MaxSetups
    /\ \E rs \in SeqsUpTo({"first", "second"}, 2) :
        mock' = [mock EXCEPT !.callSequence = rs, !.callIndex = 0,
                             !.given = <<>>, !.nSetup = @ + 1]
    /\ UNCHANGED <<cfg, hook, hcfg, started, ctxDone, proj, events, nInjected,
                   sup, readers, poller, nTicks, calls, hconn, encoder,
                   decoder, requestID, pending, connected, agentID, phase,
                   feedbackCh, consumed, trans, nConn, faults, enqBase,
                   evClosed, stopped, chClosed, mu, agent, prompts, registry>>

\* OnMessage(contains, respond); OnAny is the matcher of the empty text.
MockOn ==
    /\ mock.nSetup < MaxSetups
    /\ \E h \in [contains : {"", "hi"}, respond : {"matched"}] :
        mock' = [mock EXCEPT !.handlers = Append(@, h), !.nSetup = @ + 1]
    /\ UNCHANGED <<cfg, hook, hcfg, started, ctxDone, proj, events, nInjected,
                   sup, readers, poller, nTicks, calls, hconn, encoder,
                   decoder, requestID, pending, connected, agentID, phase,
                   feedbackCh, consumed, trans, nConn, faults, enqBase,
                   evClosed, stopped, chClosed, mu, agent, prompts, registry>>

\* handleRequest up to the end of its first critical section: the request
\* is in the log.
MockLog(c) ==
    /\ mock.inReq[c] = "" /\ mock.nReq < MaxRequests
    /\ \E text \in {"hi", "yo"} :
        mock' = [mock EXCEPT !.requests = Append(@, text),
                             !.inReq[c] = text, !.nReq = @ + 1]
    /\ UNCHANGED <<cfg, hook, hcfg, started, ctxDone, proj, events, nInjected,
                   sup, readers, poller, nTicks, calls, hconn, encoder,
                   decoder, requestID, pending, connected, agentID, phase,
                   feedbackCh, consumed, trans, nConn, faults, enqBase,
                   evClosed, stopped, chClosed, mu, agent, prompts, registry>>

\* A findResponse that leaves callIndex where it is.
MockFindResponseNoAdvance(c) ==
    /\ mock.inReq[c] # ""
    /\ LET RECURSIVE MatchFrom(_)
           MatchFrom(i) ==
               IF i = 0 THEN "default"
               ELSE IF mock.handlers[i].contains \in {"", mock.inReq[c]}
                    THEN mock.handlers[i].respond
               ELSE MatchFrom(i - 1)
           resp == IF Len(mock.callSequence) > 0
                   THEN IF mock.callIndex < Len(mock.callSequence)
                        THEN mock.callSequence[mock.callIndex + 1]
                        ELSE "default"
                   ELSE MatchFrom(Len(mock.handlers)) IN
        mock' = [mock EXCEPT !.inReq[c] = "",
                             !.given = Append(@, [to |-> c, resp |-> resp])]
    /\ UNCHANGED <<cfg, hook, hcfg, started, ctxDone, proj, events, nInjected,
                   sup, readers, poller, nTicks, calls, hconn, encoder,
                   decoder, requestID, pending, connected, agentID, phase,
                   feedbackCh, consumed, trans, nConn, faults, enqBase,
                   evClosed, stopped, chClosed, mu, agent, prompts, registry>>

\* findResponse, the second critical section of handleRequest: the next
\* entry of the sequence, or the default when the sequence is used up;
\* without a sequence the handlers from the last added to the first, the
\* response of the first whose matcher accepts the text, else the default.
MockFindResponse(c) ==
    /\ mock.inReq[c] # ""
    /\ LET RECURSIVE MatchFrom(_)
           MatchFrom(i) ==
               IF i = 0 THEN "default"
               ELSE IF mock.handlers[i].contains \in {"", mock.inReq[c]}
                    THEN mock.handlers[i].respond
               ELSE MatchFrom(i - 1)
           inSeq == Len(mock.callSequence) > 0
                    /\ mock.callIndex < Len(mock.callSequence)
           resp == IF inSeq THEN mock.callSequence[mock.callIndex + 1]
                   ELSE IF Len(mock.callSequence) > 0 THEN "default"
                   ELSE MatchFrom(Len(mock.handlers)) IN
        mock' = [mock EXCEPT !.inReq[c] = "",
                             !.callIndex = IF inSeq THEN @ + 1 ELSE @,
                             !.given = Append(@, [to |-> c, resp |-> resp])]
    /\ UNCHANGED <<cfg, hook, hcfg, started, ctxDone, proj, events, nInjected,
                   sup, readers, poller, nTicks, calls, hconn, encoder,
                   decoder, requestID, pending, connected, agentID, phase,
                   feedbackCh, consumed, trans, nConn, faults, enqBase,
                   evClosed, stopped, chClosed, mu, agent, prompts, registry>>

-----------------------------------------------------------------------------
(* The sub-agent registry (package subagents).                              *)

\* The fields of registry. agents: r.agents, each agent by its Enabled
\* (the registry starts with the agent files "a" and "b" loaded, Enabled as
\* LoadAgentFile leaves it); reload: where ReloadAll is, "idle" outside it,
\* "cleared" after its first critical section, "loaded" after LoadAgents;
\* enabledStates: its local map; last: for each name the Enabled value most
\* recently set, by SetEnabled while the agent exists (in the map, or in
\* the snapshot of the reload in progress) or by the load of an agent that
\* was not there before; nReload, nSet: calls so far.

\* SetEnabled(name, enabled): one critical section.
RegistrySetEnabled ==
    /\ registry.nSet < MaxSets
    /\ \E name \in {"a", "b"}, enabled \in BOOLEAN :
        registry' =
            [registry EXCEPT
                !.agents = [n \in DOMAIN @ |-> IF n = name THEN enabled ELSE @[n]],
                !.last = IF \/ name \in DOMAIN registry.agents
                            \/ /\ registry.reload # "idle"
                               /\ name \in DOMAIN registry.enabledStates
                         THEN [@ EXCEPT ![name] = enabled] ELSE @,
                !.nSet = @ + 1]
    /\ UNCHANGED <<cfg, hook, hcfg, started, ctxDone, proj, events, nInjected,
                   sup, readers, poller, nTicks, calls, hconn, encoder,
                   decoder, requestID, pending, connected, agentID, phase,
                   feedbackCh, consumed, trans, nConn, faults, enqBase,
                   evClosed, stopped, chClosed, mu, agent, prompts, mock>>

\* ReloadAll: the critical section that copies the Enabled values and
\* empties the map; LoadAgents, a critical section of its own, over the
\* agent files found on disk at that moment, first match wins; the critical
\* section that writes the copied values back.
RegistryReloadAll ==
    /\ \/ /\ registry.reload = "idle" /\ registry.nReload < MaxReloads
          /\ registry' = [registry EXCEPT !.enabledStates = registry.agents,
                                          !.agents = [n \in {} |-> TRUE],
                                          !.reload = "cleared"]
       \/ /\ registry.reload = "cleared"
          /\ \E files \in SUBSET {"a", "b"} :
              registry' =
                  [registry EXCEPT
                      !.agents = [n \in DOMAIN @ \cup files |->
                                     IF n \in DOMAIN @ THEN @[n] ELSE TRUE],
                      !.last = [n \in DOMAIN @ |->
                                   IF n \in files \ DOMAIN registry.enabledStates
                                   THEN TRUE ELSE @[n]],
                      !.reload = "loaded"]
       \/ /\ registry.reload = "loaded"
          /\ registry' =
                 [registry EXCEPT
                     !.agents = [n \in DOMAIN @ |->
                                    IF n \in DOMAIN registry.enabledStates
                                    THEN registry.enabledStates[n] ELSE @[n]],
                     !.reload = "idle", !.nReload = @ + 1]
    /\ UNCHANGED <<cfg, hook, hcfg, started, ctxDone, proj, events, nInjected,
                   sup, readers, poller, nTicks, calls, hconn, encoder,
                   decoder, requestID, pending, connected, agentID, phase,
                   feedbackCh, consumed, trans, nConn, faults, enqBase,
                   evClosed, stopped, chClosed, mu, agent, prompts, mock>>

----------------------------------------------------------------------------
(* The state after construction.                                            *)

\* No item read yet; no loop over items begun.
NoItem == <<0, 0>>
NoBase == [len |-> 0, quiet |-> FALSE]

InitOf(c) ==
    /\ cfg = c
    /\ hook = RegisteredFactory(c).hook
    /\ hcfg = NewTempotownHook(c).cfg
    /\ started = 0
    /\ ctxDone = FALSE
    /\ proj = "none"
    /\ events = <<>>
    /\ nInjected = 0
    /\ sup = [pc |-> "none", t |-> NoTransport]
    /\ readers = [r \in Transports |-> [pc |-> "none", d |-> NoTransport]]
    /\ poller = [pc |-> "none", id |-> 0, n |-> 0, k |-> 0]
    /\ nTicks = 0
    /\ calls = [c2 \in Callers |-> NoCall]
    /\ hconn = NoTransport
    /\ encoder = NoTransport
    /\ decoder = NoTransport
    /\ requestID = 0
    /\ pending = {}
    /\ connected = FALSE
    /\ agentID = ""
    /\ phase = "init"
    /\ feedbackCh = <<>>
    /\ consumed = NoItem
    /\ trans = [t \in Transports |-> FreshTransport]
    /\ nConn = 0
    /\ faults = 0
    /\ enqBase = NoBase
    /\ evClosed = FALSE
    /\ stopped = FALSE
    /\ chClosed = FALSE
    /\ mu = "free"
    /\ agent = NewAgentStatusHook
    /\ prompts = [built |-> FALSE, app |-> FALSE, hostSub |-> FALSE, nPrompts |-> 0,
                  enabled |-> FALSE, promptSubmitter |-> FALSE, run |-> "none",
                  fire |-> "idle", saw |-> FALSE, nFires |-> 0, submitted |-> 0,
                  set |-> "none", arg |-> FALSE, nSet |-> 0]
    /\ mock = NewServer
    /\ registry = [agents |-> [n \in {"a", "b"} |-> TRUE], reload |-> "idle",
                   enabledStates |-> [n \in {} |-> TRUE],
                   last |-> [n \in {"a", "b"} |-> TRUE],
                   nReload |-> 0, nSet |-> 0]

\* The configurations of the main specification: the hook disabled, and the
\* hook enabled with every default.
MainConfigs ==
    {c \in Configs :
        c.Role = "" /\ c.Capabilities = <<>> /\ c.PollIntervalSeconds = 0}

Init == \E c \in MainConfigs : InitOf(c)

----------------------------------------------------------------------------
(* call(): the steps every caller shares.                                   *)

\* id := h.requestID.Add(1)
CallAlloc(c) ==
    /\ calls[c].st = "alloc"
    /\ requestID' = requestID + 1
    /\ calls' = [calls EXCEPT ![c].st = "write", ![c].id = requestID + 1]
    /\ UNCHANGED <<cfg, hook, hcfg, started, ctxDone, proj, events, nInjected,
                   sup, readers, poller, nTicks, hconn, encoder, decoder,
                   pending, connected, agentID, phase, feedbackCh, consumed,
                   trans, nConn, faults, enqBase, evClosed, stopped, chClosed,
                   mu, agent, prompts, mock, registry>>

\* A call() that encodes the request and installs its entry only later.
CallWriteNoEntry(c) ==
    /\ calls[c].st = "write"
    /\ mu = "free"
    /\ encoder # NoTransport
    /\ ~Blocking(encoder)
    /\ \E w \in WriteOutcomes(encoder) :
        /\ trans' = Written(encoder, Frame(calls[c].id, calls[c].req), w)
        /\ calls' = [calls EXCEPT ![c].st = IF w = "err" THEN "failed" ELSE "wait"]
    /\ UNCHANGED <<cfg, hook, hcfg, started, ctxDone, proj, events, nInjected,
                   sup, readers, poller, nTicks, hconn, encoder, decoder,
                   requestID, pending, connected, agentID, phase, feedbackCh,
                   consumed, nConn, faults, enqBase, evClosed, stopped,
                   chClosed, mu, agent, prompts, mock, registry>>

\* The critical section of call(): h.pending[id] = ch, then Encode(req).
\* On a transport that takes no more bytes Encode does not return and the
\* mutex stays locked.
CallWrite(c) ==
    /\ calls[c].st = "write"
    /\ mu = "free"
    /\ encoder # NoTransport
    /\ pending' = pending \cup {calls[c].id}
    /\ IF Blocking(encoder)
       THEN /\ calls' = [calls EXCEPT ![c].st = "blocked"]
            /\ mu' = "held"
            /\ trans' = trans
       ELSE /\ \E w \in WriteOutcomes(encoder) :
                /\ trans' = Written(encoder, Frame(calls[c].id, calls[c].req), w)
                /\ calls' = [calls EXCEPT ![c].st = IF w = "err" THEN "failed" ELSE "wait"]
            /\ mu' = mu
    /\ UNCHANGED <<cfg, hook, hcfg, started, ctxDone, proj, events, nInjected,
                   sup, readers, poller, nTicks, hconn, encoder, decoder,
                   requestID, connected, agentID, phase, feedbackCh, consumed,
                   nConn, faults, enqBase, evClosed, stopped, chClosed, agent,
                   prompts, mock, registry>>

\* The blocked Encode of call() returns, the transport taking bytes again
\* or being closed: the critical section ends.
CallUnblock(c) ==
    /\ calls[c].st = "blocked"
    /\ ~Blocking(encoder)
    /\ \E w \in WriteOutcomes(encoder) :
        /\ trans' = Written(encoder, Frame(calls[c].id, calls[c].req), w)
        /\ calls' = [calls EXCEPT ![c].st = IF w = "err" THEN "failed" ELSE "wait"]
    /\ mu' = "free"
    /\ UNCHANGED <<cfg, hook, hcfg, started, ctxDone, proj, events, nInjected,
                   sup, readers, poller, nTicks, hconn, encoder, decoder,
                   requestID, pending, connected, agentID, phase, feedbackCh,
                   consumed, nConn, faults, enqBase, evClosed, stopped,
                   chClosed, agent, prompts, mock, registry>>

\* The ways call() can return from where caller c stands: after a failed
\* encode, the error; in the select, whichever ready case Go picks. slow
\* says whether the environment lets 30 s pass before the response comes.
ReturnOutcomes(c, slow) ==
    IF calls[c].st = "failed" THEN (IF mu = "free" THEN {"werr"} ELSE {})
    ELSE IF calls[c].st = "wait"
    THEN (IF slow /\ mu = "free" THEN {"timeout"} ELSE {})
         \cup (IF ctxDone /\ mu = "free" THEN {"cancelled"} ELSE {})
         \cup (IF calls[c].resp # <<>> THEN {"resp"} ELSE {})
    ELSE {}

\* A call() that leaves its entry behind when ctx is done.
PendingAfterReturnLeak(c, o) ==
    IF o \in {"resp", "cancelled"} THEN pending ELSE pending \ {calls[c].id}

\* h.pending after call() returned by outcome o: every path but the
\* delivered response deletes the entry (the reader deleted that one).
PendingAfterReturn(c, o) ==
    IF o = "resp" THEN pending ELSE pending \ {calls[c].id}

\* What call() returns: "ok" with the response, or the error.
CallResult(c, o) ==
    IF o = "resp"
    THEN IF calls[c].resp[1].kind = "error" THEN "rpcerr" ELSE "ok"
    ELSE o

\* What callTool() returns: a result with isError is a tool error.
CallToolResult(c, o) ==
    IF CallResult(c, o) = "ok" /\ calls[c].resp[1].kind = "toolerr"
    THEN "toolerr"
    ELSE CallResult(c, o)


----------------------------------------------------------------------------
(* connectionLoop, with connect, initialize and registerAgent inlined.      *)
(* pc: "top"     the ctx check that opens each iteration                    *)
(*     "dial"    in DialContext                                             *)
(*     "install" dialled, before the critical section that sets h.conn      *)
(*     "init"    in call("initialize")                                      *)
(*     "notify"  before sendNotification("initialized")                     *)
(*     "reg"     in callTool("register_agent")                              *)
(*     "serve"   connect returned done: select on ctx.Done and done         *)
(*     "backoff" select on ctx.Done and time.After(ReconnectDelay)          *)
(*     "exit"    returned                                                   *)

SupTop ==
    /\ sup.pc = "top"
    /\ sup' = [sup EXCEPT !.pc = IF ctxDone THEN "exit" ELSE "dial"]
    /\ UNCHANGED <<cfg, hook, hcfg, started, ctxDone, proj, events, nInjected,
                   readers, poller, nTicks, calls, hconn, encoder, decoder,
                   requestID, pending, connected, agentID, phase, feedbackCh,
                   consumed, trans, nConn, faults, enqBase, evClosed, stopped,
                   chClosed, mu, agent, prompts, mock, registry>>

\* DialContext succeeds: conn is the local variable of connect.
SupDialOk ==
    /\ sup.pc = "dial"
    /\ nConn < MaxConn
    /\ nConn' = nConn + 1
    /\ sup' = [pc |-> "install", t |-> nConn + 1]
    /\ UNCHANGED <<cfg, hook, hcfg, started, ctxDone, proj, events, nInjected,
                   readers, poller, nTicks, calls, hconn, encoder, decoder,
                   requestID, pending, connected, agentID, phase, feedbackCh,
                   consumed, trans, faults, enqBase, evClosed, stopped,
                   chClosed, mu, agent, prompts, mock, registry>>

\* DialContext fails: the peer is not listening, or ctx was cancelled.
SupDialFail ==
    /\ sup.pc = "dial"
    /\ ctxDone \/ faults < MaxFaults
    /\ faults' = IF ctxDone THEN faults ELSE faults + 1
    /\ sup' = [sup EXCEPT !.pc = "backoff"]
    /\ UNCHANGED <<cfg, hook, hcfg, started, ctxDone, proj, events, nInjected,
                   readers, poller, nTicks, calls, hconn, encoder, decoder,
                   requestID, pending, connected, agentID, phase, feedbackCh,
                   consumed, trans, nConn, enqBase, evClosed, stopped,
                   chClosed, mu, agent, prompts, mock, registry>>

\* h.conn, h.encoder, h.decoder = conn under the mutex; go readLoop; then
\* initialize() enters call("initialize").
SupInstall ==
    /\ sup.pc = "install"
    /\ mu = "free"
    /\ hconn' = sup.t
    /\ encoder' = sup.t
    /\ decoder' = sup.t
    /\ readers' = [readers EXCEPT ![sup.t] = [pc |-> "top", d |-> NoTransport]]
    /\ calls' = [calls EXCEPT ![SUP] = CallStart(InitializeReq)]
    /\ sup' = [sup EXCEPT !.pc = "init"]
    /\ trans' = Collect(trans, sup.t, sup.t, sup.t, readers)
    /\ UNCHANGED <<cfg, hook, hcfg, started, ctxDone, proj, events, nInjected,
                   poller, nTicks, requestID, pending, connected, agentID,
                   phase, feedbackCh, consumed, nConn, faults, enqBase,
                   evClosed, stopped, chClosed, mu, agent, prompts, mock,
                   registry>>

\* A connectionLoop that returns after the delay instead of dialling again.
SupBackoffOnce ==
    /\ sup.pc = "backoff"
    /\ sup' = [sup EXCEPT !.pc = "exit"]
    /\ UNCHANGED <<cfg, hook, hcfg, started, ctxDone, proj, events, nInjected,
                   readers, poller, nTicks, calls, hconn, encoder, decoder,
                   requestID, pending, connected, agentID, phase, feedbackCh,
                   consumed, trans, nConn, faults, enqBase, evClosed, stopped,
                   chClosed, mu, agent, prompts, mock, registry>>

\* A connect that does not look at what initialize returned.
SupInitReturnUnchecked(slow) ==
    /\ sup.pc = "init"
    /\ \E o \in ReturnOutcomes(SUP, slow) :
        pending' = PendingAfterReturn(SUP, o)
    /\ sup' = [sup EXCEPT !.pc = "notify"]
    /\ calls' = [calls EXCEPT ![SUP] = NoCall]
    /\ UNCHANGED <<cfg, hook, hcfg, started, ctxDone, proj, events, nInjected,
                   readers, poller, nTicks, hconn, encoder, decoder,
                   requestID, connected, agentID, phase, feedbackCh, consumed,
                   trans, nConn, faults, enqBase, evClosed, stopped, chClosed,
                   mu, agent, prompts, mock, registry>>

\* call("initialize") returns. An error makes connect close conn and
\* connectionLoop wait the reconnect delay.
SupInitReturn(slow) ==
    /\ sup.pc = "init"
    /\ \E o \in ReturnOutcomes(SUP, slow) :
        /\ pending' = PendingAfterReturn(SUP, o)
        /\ IF CallResult(SUP, o) = "ok"
           THEN /\ sup' = [sup EXCEPT !.pc = "notify"]
                /\ trans' = trans
           ELSE /\ sup' = [sup EXCEPT !.pc = "backoff"]
                /\ trans' = Closed(sup.t)
    /\ calls' = [calls EXCEPT ![SUP] = NoCall]
    /\ UNCHANGED <<cfg, hook, hcfg, started, ctxDone, proj, events, nInjected,
                   readers, poller, nTicks, hconn, encoder, decoder,
                   requestID, connected, agentID, phase, feedbackCh, consumed,
                   nConn, faults, enqBase, evClosed, stopped, chClosed, mu,
                   agent, prompts, mock, registry>>

\* sendNotification("initialized", nil): the encode error is ignored. Then
\* registerAgent() enters callTool("register_agent").
SendNotification(frame) ==
    IF encoder = NoTransport THEN trans
    ELSE Written(encoder, frame,
                 IF "ok" \in WriteOutcomes(encoder) THEN "ok" ELSE "err")

\* On a transport that takes no more bytes the Encode of sendNotification
\* does not return and the mutex stays locked (pc "notifying").
SupNotify ==
    /\ sup.pc = "notify"
    /\ mu = "free"
    /\ IF encoder # NoTransport /\ Blocking(encoder)
       THEN /\ sup' = [sup EXCEPT !.pc = "notifying"]
            /\ mu' = "held"
            /\ UNCHANGED <<trans, calls>>
       ELSE /\ trans' = SendNotification(InitializedNotif)
            /\ calls' = [calls EXCEPT ![SUP] = CallStart(RegisterReq)]
            /\ sup' = [sup EXCEPT !.pc = "reg"]
            /\ mu' = mu
    /\ UNCHANGED <<cfg, hook, hcfg, started, ctxDone, proj, events, nInjected,
                   readers, poller, nTicks, hconn, encoder, decoder,
                   requestID, pending, connected, agentID, phase, feedbackCh,
                   consumed, nConn, faults, enqBase, evClosed, stopped,
                   chClosed, agent, prompts, mock, registry>>

\* The blocked Encode of sendNotification returns.
SupNotifyUnblock ==
    /\ sup.pc = "notifying"
    /\ ~Blocking(encoder)
    /\ trans' = SendNotification(InitializedNotif)
    /\ calls' = [calls EXCEPT ![SUP] = CallStart(RegisterReq)]
    /\ sup' = [sup EXCEPT !.pc = "reg"]
    /\ mu' = "free"
    /\ UNCHANGED <<cfg, hook, hcfg, started, ctxDone, proj, events, nInjected,
                   readers, poller, nTicks, hconn, encoder, decoder,
                   requestID, pending, connected, agentID, phase, feedbackCh,
                   consumed, nConn, faults, enqBase, evClosed, stopped,
                   chClosed, agent, prompts, mock, registry>>

\* h.agentID after registerAgent parsed the result text.
AgentIDAfter(text) ==
    IF ParseAgentID(text) # "" THEN ParseAgentID(text) ELSE agentID

\* A connect() that leaves conn open when register_agent fails.
SupRegReturnNoClose(slow) ==
    /\ sup.pc = "reg"
    /\ \E o \in ReturnOutcomes(SUP, slow) :
        /\ pending' = PendingAfterReturn(SUP, o)
        /\ IF CallToolResult(SUP, o) = "ok"
           THEN /\ agentID' = AgentIDAfter(calls[SUP].resp[1].text)
                /\ phase' = "idle"
                /\ connected' = TRUE
                /\ sup' = [sup EXCEPT !.pc = "serve"]
           ELSE /\ sup' = [sup EXCEPT !.pc = "backoff"]
                /\ UNCHANGED <<agentID, phase, connected>>
    /\ calls' = [calls EXCEPT ![SUP] = NoCall]
    /\ UNCHANGED <<cfg, hook, hcfg, started, ctxDone, proj, events, nInjected,
                   readers, poller, nTicks, hconn, encoder, decoder,
                   requestID, feedbackCh, consumed, trans, nConn, faults,
                   enqBase, evClosed, stopped, chClosed, mu, agent, prompts,
                   mock, registry>>

\* callTool("register_agent") returns. Success stores the agent id, sets
\* the phase and h.connected; an error closes conn.
SupRegReturn(slow) ==
    /\ sup.pc = "reg"
    /\ \E o \in ReturnOutcomes(SUP, slow) :
        /\ pending' = PendingAfterReturn(SUP, o)
        /\ IF CallToolResult(SUP, o) = "ok"
           THEN /\ agentID' = AgentIDAfter(calls[SUP].resp[1].text)
                /\ phase' = "idle"
                /\ connected' = TRUE
                /\ sup' = [sup EXCEPT !.pc = "serve"]
                /\ trans' = trans
           ELSE /\ sup' = [sup EXCEPT !.pc = "backoff"]
                /\ trans' = Closed(sup.t)
                /\ UNCHANGED <<agentID, phase, connected>>
    /\ calls' = [calls EXCEPT ![SUP] = NoCall]
    /\ UNCHANGED <<cfg, hook, hcfg, started, ctxDone, proj, events, nInjected,
                   readers, poller, nTicks, hconn, encoder, decoder,
                   requestID, feedbackCh, consumed, nConn, faults, enqBase,
                   evClosed, stopped, chClosed, mu, agent, prompts, mock,
                   registry>>

\* The select after connect: ctx.Done returns.
SupServeCancel ==
    /\ sup.pc = "serve"
    /\ ctxDone
    /\ sup' = [sup EXCEPT !.pc = "exit"]
    /\ UNCHANGED <<cfg, hook, hcfg, started, ctxDone, proj, events, nInjected,
                   readers, poller, nTicks, calls, hconn, encoder, decoder,
                   requestID, pending, connected, agentID, phase, feedbackCh,
                   consumed, trans, nConn, faults, enqBase, evClosed, stopped,
                   chClosed, mu, agent, prompts, mock, registry>>

\* A connectionLoop that dials again at once after a lost connection.
SupServeLostNoDelay ==
    /\ sup.pc = "serve"
    /\ readers[sup.t].pc = "exit"
    /\ connected' = FALSE
    /\ sup' = [sup EXCEPT !.pc = "dial"]
    /\ UNCHANGED <<cfg, hook, hcfg, started, ctxDone, proj, events, nInjected,
                   readers, poller, nTicks, calls, hconn, encoder, decoder,
                   requestID, pending, agentID, phase, feedbackCh, consumed,
                   trans, nConn, faults, enqBase, evClosed, stopped, chClosed,
                   mu, agent, prompts, mock, registry>>

\* The select after connect: done is closed (the reader of this connect
\* returned); the flag is cleared and the delay starts.
SupServeLost ==
    /\ sup.pc = "serve"
    /\ readers[sup.t].pc = "exit"
    /\ connected' = FALSE
    /\ sup' = [sup EXCEPT !.pc = "backoff"]
    /\ UNCHANGED <<cfg, hook, hcfg, started, ctxDone, proj, events, nInjected,
                   readers, poller, nTicks, calls, hconn, encoder, decoder,
                   requestID, pending, agentID, phase, feedbackCh, consumed,
                   trans, nConn, faults, enqBase, evClosed, stopped, chClosed,
                   mu, agent, prompts, mock, registry>>

\* The delay is over (or ctx is done): the next iteration checks ctx and
\* calls connect.
SupBackoff ==
    /\ sup.pc = "backoff"
    /\ sup' = [sup EXCEPT !.pc = IF ctxDone THEN "exit" ELSE "dial"]
    /\ UNCHANGED <<cfg, hook, hcfg, started, ctxDone, proj, events, nInjected,
                   readers, poller, nTicks, calls, hconn, encoder, decoder,
                   requestID, pending, connected, agentID, phase, feedbackCh,
                   consumed, trans, nConn, faults, enqBase, evClosed, stopped,
                   chClosed, mu, agent, prompts, mock, registry>>

----------------------------------------------------------------------------
(* readLoop. The reader started by the r-th connect reads h.decoder anew    *)
(* for every Decode.                                                        *)
(* pc: "top" the ctx check; "decode" in Decode on transport d; "exit"       *)
(* returned, and done is closed.                                            *)

ReaderTop(r) ==
    /\ readers[r].pc = "top"
    /\ readers' = [readers EXCEPT ![r] =
                      IF ctxDone THEN [pc |-> "exit", d |-> NoTransport]
                      ELSE [pc |-> "decode", d |-> decoder]]
    /\ UNCHANGED <<cfg, hook, hcfg, started, ctxDone, proj, events, nInjected,
                   sup, poller, nTicks, calls, hconn, encoder, decoder,
                   requestID, pending, connected, agentID, phase, feedbackCh,
                   consumed, trans, nConn, faults, enqBase, evClosed, stopped,
                   chClosed, mu, agent, prompts, mock, registry>>

\* A router that hands the response to every caller that waits.
DeliveredToAll(f) ==
    [c \in Callers |->
        IF calls[c].st \in {"wait", "failed"}
        THEN [calls[c] EXCEPT !.resp = <<f>>]
        ELSE calls[c]]

\* A router that takes a string id for the number it spells.
RoutedAnyId(f) == f.id # 0

\* resp.ID != nil and resp.ID.(float64) is ok: the frame has an id and the
\* id is a JSON number.
Routed(f) == f.id # 0 /\ f.kind # "strid"

\* The calls after response f was routed: the caller whose pending entry
\* has f's id gets f in its slot.
Delivered(f) ==
    [c \in Callers |->
        IF calls[c].id = f.id /\ calls[c].st \in {"wait", "failed"}
        THEN [calls[c] EXCEPT !.resp = <<f>>]
        ELSE calls[c]]

\* The readers once reader r is out of Decode.
Left(r) == [readers EXCEPT ![r].d = NoTransport]

\* A reader that delivers the response and leaves the entry in the map.
ReaderFrameKeepEntry(r) ==
    /\ readers[r].pc = "decode"
    /\ LET d == readers[r].d
           f == Head(trans[d].inq) IN
        /\ trans[d].inq # <<>>
        /\ (f.kind # "bad" /\ Routed(f)) => mu = "free"
        /\ trans' = Collect([trans EXCEPT ![d].inq = Tail(@)],
                            encoder, decoder, sup.t, Left(r))
        /\ IF f.kind = "bad"
           THEN /\ readers' = [readers EXCEPT ![r] = [pc |-> "exit", d |-> NoTransport]]
                /\ UNCHANGED calls
           ELSE /\ readers' = [readers EXCEPT ![r] = [pc |-> "top", d |-> NoTransport]]
                /\ IF Routed(f) /\ f.id \in pending
                   THEN calls' = Delivered(f)
                   ELSE UNCHANGED calls
    /\ UNCHANGED <<cfg, hook, hcfg, started, ctxDone, proj, events, nInjected,
                   sup, poller, nTicks, hconn, encoder, decoder, requestID,
                   pending, connected, agentID, phase, feedbackCh, consumed,
                   nConn, faults, enqBase, evClosed, stopped, chClosed, mu,
                   agent, prompts, mock, registry>>

\* Decode returned frame f: route it under the mutex.
ReaderFrame(r) ==
    /\ readers[r].pc = "decode"
    /\ LET d == readers[r].d
           f == Head(trans[d].inq) IN
        /\ trans[d].inq # <<>>
        /\ (f.kind # "bad" /\ Routed(f)) => mu = "free"
        /\ trans' = Collect([trans EXCEPT ![d].inq = Tail(@)],
                            encoder, decoder, sup.t, Left(r))
        /\ IF f.kind = "bad"
           THEN /\ readers' = [readers EXCEPT ![r] = [pc |-> "exit", d |-> NoTransport]]
                /\ UNCHANGED <<calls, pending>>
           ELSE /\ readers' = [readers EXCEPT ![r] = [pc |-> "top", d |-> NoTransport]]
                /\ IF Routed(f) /\ f.id \in pending
                   THEN /\ calls' = Delivered(f)
                        /\ pending' = pending \ {f.id}
                   ELSE UNCHANGED <<calls, pending>>
    /\ UNCHANGED <<cfg, hook, hcfg, started, ctxDone, proj, events, nInjected,
                   sup, poller, nTicks, hconn, encoder, decoder, requestID,
                   connected, agentID, phase, feedbackCh, consumed, nConn,
                   faults, enqBase, evClosed, stopped, chClosed, mu, agent,
                   prompts, mock, registry>>

\* Decode returned io.EOF or net.ErrClosed: the peer closed and everything
\* it sent was read, or the client closed the socket.
ReaderEOF(r) ==
    /\ readers[r].pc = "decode"
    /\ LET d == readers[r].d IN
        \/ trans[d].cClosed
        \/ trans[d].pClosed /\ trans[d].inq = <<>>
    /\ readers' = [readers EXCEPT ![r] = [pc |-> "exit", d |-> NoTransport]]
    /\ trans' = Collect(trans, encoder, decoder, sup.t, Left(r))
    /\ UNCHANGED <<cfg, hook, hcfg, started, ctxDone, proj, events, nInjected,
                   sup, poller, nTicks, calls, hconn, encoder, decoder,
                   requestID, pending, connected, agentID, phase, feedbackCh,
                   consumed, nConn, faults, enqBase, evClosed, stopped,
                   chClosed, mu, agent, prompts, mock, registry>>


----------------------------------------------------------------------------
(* Start, Stop and the status projector (handleEvent, reportStatus).        *)

\* The host calls Start(ctx): the supervisor and the poller are spawned and
\* the caller becomes the event loop.
HostStart ==
    /\ hook = "hook"
    /\ started = 0
    /\ started' = 1
    /\ sup' = [sup EXCEPT !.pc = "top"]
    /\ poller' = [poller EXCEPT !.pc = "idle"]
    /\ proj' = "loop"
    /\ UNCHANGED <<cfg, hook, hcfg, ctxDone, events, nInjected, readers,
                   nTicks, calls, hconn, encoder, decoder, requestID, pending,
                   connected, agentID, phase, feedbackCh, consumed, trans,
                   nConn, faults, enqBase, evClosed, stopped, chClosed, mu,
                   agent, prompts, mock, registry>>

\* The host calls Start(ctx) again on the same hook: Start has no guard,
\* so a second supervisor and a second poller are spawned and the caller
\* becomes a second event loop. They run the same loops on the same hook;
\* the model counts them and follows the goroutines of the first call.
HostStartAgain ==
    /\ started >= 1
    /\ started < MaxStarts
    /\ ~ctxDone
    /\ started' = started + 1
    /\ UNCHANGED <<cfg, hook, hcfg, ctxDone, proj, events, nInjected, sup,
                   readers, poller, nTicks, calls, hconn, encoder, decoder,
                   requestID, pending, connected, agentID, phase, feedbackCh,
                   consumed, trans, nConn, faults, enqBase, evClosed, stopped,
                   chClosed, mu, agent, prompts, mock, registry>>

\* The host cancels the lifetime context.
HostCancel ==
    /\ started > 0
    /\ ~ctxDone
    /\ ctxDone' = TRUE
    /\ UNCHANGED <<cfg, hook, hcfg, started, proj, events, nInjected, sup,
                   readers, poller, nTicks, calls, hconn, encoder, decoder,
                   requestID, pending, connected, agentID, phase, feedbackCh,
                   consumed, trans, nConn, faults, enqBase, evClosed, stopped,
                   chClosed, mu, agent, prompts, mock, registry>>

\* The host publishes a message event on the subscription channel.
HostInject(E, n) ==
    /\ proj = "loop"
    /\ ~evClosed
    /\ nInjected < n
    /\ \E ev \in E : events' = Append(events, ev)
    /\ nInjected' = nInjected + 1
    /\ UNCHANGED <<cfg, hook, hcfg, started, ctxDone, proj, sup, readers,
                   poller, nTicks, calls, hconn, encoder, decoder, requestID,
                   pending, connected, agentID, phase, feedbackCh, consumed,
                   trans, nConn, faults, enqBase, evClosed, stopped, chClosed,
                   mu, agent, prompts, mock, registry>>

\* The reports handleEvent hands to reportStatus for event ev: none when
\* the hook is not connected.
HandleEvent(ev) ==
    IF ~connected THEN NoReport ELSE HandleEventReports(ev)

\* The calls after reportStatus ran for each report of reps: when connected
\* it detaches one goroutine, which enters callTool("report_status").
ReportStatus(reps, task) ==
    IF reps # <<>> /\ connected
    THEN [calls EXCEPT ![task] = CallStart(ReportStatusReq(reps[1]))]
    ELSE calls

\* An event loop that handles an event only once the report of the event
\* before has returned.
ProjectorTakeSync ==
    /\ proj = "loop"
    /\ events # <<>>
    /\ \A c \in StatusTasks : calls[c].st = "none"
    /\ events' = Tail(events)
    /\ calls' = ReportStatus(HandleEvent(Head(events)),
                             StatusTask(nInjected - Len(events) + 1))
    /\ UNCHANGED <<cfg, hook, hcfg, started, ctxDone, proj, nInjected, sup,
                   readers, poller, nTicks, hconn, encoder, decoder,
                   requestID, pending, connected, agentID, phase, feedbackCh,
                   consumed, trans, nConn, faults, enqBase, evClosed, stopped,
                   chClosed, mu, agent, prompts, mock, registry>>

\* The event loop of Start receives one event and handles it.
ProjectorTake ==
    /\ proj = "loop"
    /\ events # <<>>
    /\ events' = Tail(events)
    /\ calls' = ReportStatus(HandleEvent(Head(events)),
                             StatusTask(nInjected - Len(events) + 1))
    /\ UNCHANGED <<cfg, hook, hcfg, started, ctxDone, proj, nInjected, sup,
                   readers, poller, nTicks, hconn, encoder, decoder,
                   requestID, pending, connected, agentID, phase, feedbackCh,
                   consumed, trans, nConn, faults, enqBase, evClosed, stopped,
                   chClosed, mu, agent, prompts, mock, registry>>

\* Stop(): under the mutex, close and forget h.conn, clear h.connected.
StopConn == IF hconn # NoTransport THEN Closed(hconn) ELSE trans

\* The event loop of Start sees ctx.Done and returns h.Stop().
ProjectorStop ==
    /\ proj = "loop"
    /\ ctxDone
    /\ mu = "free"
    /\ trans' = StopConn
    /\ hconn' = NoTransport
    /\ connected' = FALSE
    /\ stopped' = TRUE
    /\ proj' = "returned"
    /\ UNCHANGED <<cfg, hook, hcfg, started, ctxDone, events, nInjected, sup,
                   readers, poller, nTicks, calls, encoder, decoder,
                   requestID, pending, agentID, phase, feedbackCh, consumed,
                   nConn, faults, enqBase, evClosed, chClosed, mu, agent,
                   prompts, mock, registry>>

\* The host closes the subscription channel.
HostCloseEvents ==
    /\ proj = "loop"
    /\ ~evClosed
    /\ evClosed' = TRUE
    /\ UNCHANGED <<cfg, hook, hcfg, started, ctxDone, proj, events, nInjected,
                   sup, readers, poller, nTicks, calls, hconn, encoder,
                   decoder, requestID, pending, connected, agentID, phase,
                   feedbackCh, consumed, trans, nConn, faults, enqBase,
                   stopped, chClosed, mu, agent, prompts, mock, registry>>

\* The event loop of Start receives from the closed, drained channel
\* (ok is false) and returns h.Stop().
ProjectorClosed ==
    /\ proj = "loop"
    /\ evClosed /\ events = <<>>
    /\ mu = "free"
    /\ trans' = StopConn
    /\ hconn' = NoTransport
    /\ connected' = FALSE
    /\ stopped' = TRUE
    /\ proj' = "returned"
    /\ UNCHANGED <<cfg, hook, hcfg, started, ctxDone, events, nInjected, sup,
                   readers, poller, nTicks, calls, encoder, decoder,
                   requestID, pending, agentID, phase, feedbackCh, consumed,
                   nConn, faults, enqBase, evClosed, chClosed, mu, agent,
                   prompts, mock, registry>>

\* The host calls Stop() itself, on a hook it has started.
HostStop ==
    /\ started > 0
    /\ mu = "free"
    /\ trans' = StopConn
    /\ hconn' = NoTransport
    /\ connected' = FALSE
    /\ stopped' = TRUE
    /\ UNCHANGED <<cfg, hook, hcfg, started, ctxDone, proj, events, nInjected,
                   sup, readers, poller, nTicks, calls, encoder, decoder,
                   requestID, pending, agentID, phase, feedbackCh, consumed,
                   nConn, faults, enqBase, evClosed, chClosed, mu, agent,
                   prompts, mock, registry>>

\* The detached goroutine of reportStatus: callTool returns, the error (if
\* any) is logged, the goroutine ends.
StatusReturn(i, slow) ==
    /\ \E o \in ReturnOutcomes(StatusTask(i), slow) :
        pending' = PendingAfterReturn(StatusTask(i), o)
    /\ calls' = [calls EXCEPT ![StatusTask(i)] = NoCall]
    /\ UNCHANGED <<cfg, hook, hcfg, started, ctxDone, proj, events, nInjected,
                   sup, readers, poller, nTicks, hconn, encoder, decoder,
                   requestID, connected, agentID, phase, feedbackCh, consumed,
                   trans, nConn, faults, enqBase, evClosed, stopped, chClosed,
                   mu, agent, prompts, mock, registry>>

----------------------------------------------------------------------------
(* pollFeedbackLoop and pollFeedback.                                       *)
(* pc: "idle" select on ctx.Done and the ticker; "call" in                  *)
(* callTool("get_pending_feedback"); "enq" in the loop over the items, at   *)
(* item k of n; "exit" returned.                                            *)

\* A tick that polls without looking at h.connected.
PollTickAlways(n) ==
    /\ poller.pc = "idle"
    /\ nTicks < n
    /\ nTicks' = nTicks + 1
    /\ poller' = [pc |-> "call", id |-> 0, n |-> 0, k |-> 0]
    /\ calls' = [calls EXCEPT ![POLL] = CallStart(PollReq)]
    /\ enqBase' = NoBase
    /\ UNCHANGED <<cfg, hook, hcfg, started, ctxDone, proj, events, nInjected,
                   sup, readers, hconn, encoder, decoder, requestID, pending,
                   connected, agentID, phase, feedbackCh, consumed, trans,
                   nConn, faults, evClosed, stopped, chClosed, mu, agent,
                   prompts, mock, registry>>

\* A tick: poll only when connected.
PollTick(n) ==
    /\ poller.pc = "idle"
    /\ nTicks < n
    /\ nTicks' = nTicks + 1
    /\ IF connected
       THEN /\ poller' = [pc |-> "call", id |-> 0, n |-> 0, k |-> 0]
            /\ calls' = [calls EXCEPT ![POLL] = CallStart(PollReq)]
            /\ enqBase' = NoBase
       ELSE UNCHANGED <<poller, calls, enqBase>>
    /\ UNCHANGED <<cfg, hook, hcfg, started, ctxDone, proj, events, nInjected,
                   sup, readers, hconn, encoder, decoder, requestID, pending,
                   connected, agentID, phase, feedbackCh, consumed, trans,
                   nConn, faults, evClosed, stopped, chClosed, mu, agent,
                   prompts, mock, registry>>

PollExit ==
    /\ poller.pc = "idle"
    /\ ctxDone
    /\ poller' = [poller EXCEPT !.pc = "exit"]
    /\ UNCHANGED <<cfg, hook, hcfg, started, ctxDone, proj, events, nInjected,
                   sup, readers, nTicks, calls, hconn, encoder, decoder,
                   requestID, pending, connected, agentID, phase, feedbackCh,
                   consumed, trans, nConn, faults, enqBase, evClosed, stopped,
                   chClosed, mu, agent, prompts, mock, registry>>

\* The number of items json.Unmarshal finds in the result text.
ParseItems(f) == IF f.text = ItemsText THEN f.n ELSE 0

\* A pollFeedback that takes any error of callTool for a lost connection.
PollReturnFatal(slow) ==
    /\ poller.pc = "call"
    /\ \E o \in ReturnOutcomes(POLL, slow) :
        /\ pending' = PendingAfterReturn(POLL, o)
        /\ IF CallToolResult(POLL, o) = "ok" /\ ParseItems(calls[POLL].resp[1]) > 0
           THEN /\ poller' = [pc |-> "enq", id |-> calls[POLL].id,
                              n |-> ParseItems(calls[POLL].resp[1]), k |-> 1]
                /\ enqBase' = [len |-> Len(feedbackCh), quiet |-> TRUE]
                /\ UNCHANGED connected
           ELSE /\ poller' = [poller EXCEPT !.pc = "idle"]
                /\ connected' = (connected /\ CallToolResult(POLL, o) = "ok")
                /\ UNCHANGED enqBase
    /\ calls' = [calls EXCEPT ![POLL] = NoCall]
    /\ UNCHANGED <<cfg, hook, hcfg, started, ctxDone, proj, events, nInjected,
                   sup, readers, nTicks, hconn, encoder, decoder, requestID,
                   agentID, phase, feedbackCh, consumed, trans, nConn, faults,
                   evClosed, stopped, chClosed, mu, agent, prompts, mock,
                   registry>>

\* callTool returns: an error or an unparsable text ends the poll; a list
\* of items starts the loop over them.
PollReturn(slow) ==
    /\ poller.pc = "call"
    /\ \E o \in ReturnOutcomes(POLL, slow) :
        /\ pending' = PendingAfterReturn(POLL, o)
        /\ IF CallToolResult(POLL, o) = "ok" /\ ParseItems(calls[POLL].resp[1]) > 0
           THEN /\ poller' = [pc |-> "enq", id |-> calls[POLL].id,
                              n |-> ParseItems(calls[POLL].resp[1]), k |-> 1]
                /\ enqBase' = [len |-> Len(feedbackCh), quiet |-> TRUE]
           ELSE /\ poller' = [poller EXCEPT !.pc = "idle"]
                /\ UNCHANGED enqBase
    /\ calls' = [calls EXCEPT ![POLL] = NoCall]
    /\ UNCHANGED <<cfg, hook, hcfg, started, ctxDone, proj, events, nInjected,
                   sup, readers, nTicks, hconn, encoder, decoder, requestID,
                   connected, agentID, phase, feedbackCh, consumed, trans,
                   nConn, faults, evClosed, stopped, chClosed, mu, agent,
                   prompts, mock, registry>>

\* A send that makes room in a full channel by dropping its oldest item.
TrySendEvict(ch, item) ==
    IF Len(ch) < FeedbackCap THEN Append(ch, item) ELSE Append(Tail(ch), item)

\* A send that puts the item at the head of the channel.
TrySendFront(ch, item) ==
    IF Len(ch) < FeedbackCap THEN <<item>> \o ch ELSE ch

\* The channel after the non-blocking send of item: a full channel drops it.
TrySend(ch, item) == IF Len(ch) < FeedbackCap THEN Append(ch, item) ELSE ch

\* One iteration of the loop over feedback.Items; item k of the response
\* to request id is named <<id, k>>.
PollEnqueue ==
    /\ poller.pc = "enq"
    /\ feedbackCh' = TrySend(feedbackCh, <<poller.id, poller.k>>)
    /\ poller' = [poller EXCEPT !.k = @ + 1,
                                 !.pc = IF poller.k = poller.n THEN "idle" ELSE "enq"]
    /\ UNCHANGED <<cfg, hook, hcfg, started, ctxDone, proj, events, nInjected,
                   sup, readers, nTicks, calls, hconn, encoder, decoder,
                   requestID, pending, connected, agentID, phase, consumed,
                   trans, nConn, faults, enqBase, evClosed, stopped, chClosed,
                   mu, agent, prompts, mock, registry>>

\* The host receives from FeedbackCh() and keeps what it received.
HostConsume ==
    /\ feedbackCh # <<>>
    /\ consumed' = Head(feedbackCh)
    /\ feedbackCh' = Tail(feedbackCh)
    /\ enqBase' = [enqBase EXCEPT !.quiet = FALSE]
    /\ UNCHANGED <<cfg, hook, hcfg, started, ctxDone, proj, events, nInjected,
                   sup, readers, poller, nTicks, calls, hconn, encoder,
                   decoder, requestID, pending, connected, agentID, phase,
                   trans, nConn, faults, evClosed, stopped, chClosed, mu,
                   agent, prompts, mock, registry>>

----------------------------------------------------------------------------
(* The peer (the orchestrator), one connection per transport.               *)

\* The peer acts on a connection while both ends are open and the client
\* still holds it.
PeerUp(t) ==
    /\ t <= nConn
    /\ ~trans[t].pClosed
    /\ ~trans[t].cClosed
    /\ Held(t, encoder, decoder, sup.t, readers)

\* The ids of the requests the peer answered on t; ans holds each with the
\* kind of the answer.
AnsweredIds(t) == {a[1] : a \in trans[t].ans}

\* The requests the peer received on t and has not answered.
Unanswered(t) ==
    {i \in 1..Len(trans[t].out) :
        trans[t].out[i].id # 0 /\ trans[t].out[i].id \notin AnsweredIds(t)}

\* The results the peer may give request q; B are the sizes of the item
\* lists it may return.
Results(q, B) ==
    IF q.method = "initialize" THEN {Resp(q.id, "result", "", 0)}
    ELSE IF q.tool = "register_agent" THEN {Resp(q.id, "result", AgentText, 0)}
    ELSE IF q.tool = "report_status" THEN {Resp(q.id, "result", "{ok:true}", 0)}
    ELSE {Resp(q.id, "result", ItemsText, n) : n \in B}

\* The errors the peer may give request q: a JSON-RPC error, or for a tool
\* call a result with isError.
Errors(q) ==
    {Resp(q.id, "error", "", 0)}
    \cup (IF q.method = "tools/call" THEN {Resp(q.id, "toolerr", "nope", 0)} ELSE {})

Answered(t, f) ==
    [trans EXCEPT ![t].inq = Append(@, f), ![t].ans = @ \cup {<<f.id, f.kind>>}]

PeerAnswer(t, B) ==
    /\ PeerUp(t)
    /\ \E i \in Unanswered(t) : \E f \in Results(trans[t].out[i], B) :
        trans' = Answered(t, f)
    /\ UNCHANGED <<cfg, hook, hcfg, started, ctxDone, proj, events, nInjected,
                   sup, readers, poller, nTicks, calls, hconn, encoder,
                   decoder, requestID, pending, connected, agentID, phase,
                   feedbackCh, consumed, nConn, faults, enqBase, evClosed,
                   stopped, chClosed, mu, agent, prompts, mock, registry>>

\* Result texts of register_agent that carry no agent id: JSON without the
\* field, and text that is not JSON.
OddTexts == {"{}", "registered"}

\* The peer answers a register_agent with such a text.
PeerRegisterOdd(t) ==
    /\ PeerUp(t)
    /\ \E i \in Unanswered(t) : \E x \in OddTexts :
        /\ trans[t].out[i].tool = "register_agent"
        /\ trans' = Answered(t, Resp(trans[t].out[i].id, "result", x, 0))
    /\ UNCHANGED <<cfg, hook, hcfg, started, ctxDone, proj, events, nInjected,
                   sup, readers, poller, nTicks, calls, hconn, encoder,
                   decoder, requestID, pending, connected, agentID, phase,
                   feedbackCh, consumed, nConn, faults, enqBase, evClosed,
                   stopped, chClosed, mu, agent, prompts, mock, registry>>

PeerError(t) ==
    /\ PeerUp(t)
    /\ faults < MaxFaults
    /\ faults' = faults + 1
    /\ \E i \in Unanswered(t) : \E f \in Errors(trans[t].out[i]) :
        trans' = Answered(t, f)
    /\ UNCHANGED <<cfg, hook, hcfg, started, ctxDone, proj, events, nInjected,
                   sup, readers, poller, nTicks, calls, hconn, encoder,
                   decoder, requestID, pending, connected, agentID, phase,
                   feedbackCh, consumed, nConn, enqBase, evClosed, stopped,
                   chClosed, mu, agent, prompts, mock, registry>>

\* Frames no request asked for: a notification, a second response to an
\* answered request, a response with the id of an unanswered request as a
\* string, bytes that are not JSON.
Junk(t) ==
    {Resp(0, "notif", "", 0), Resp(0, "bad", "", 0)}
    \cup {Resp(id, "result", "", 0) : id \in AnsweredIds(t)}
    \cup {Resp(trans[t].out[i].id, "strid", "", 0) : i \in Unanswered(t)}

PeerJunk(t) ==
    /\ PeerUp(t)
    /\ faults < MaxFaults
    /\ faults' = faults + 1
    /\ \E f \in Junk(t) : trans' = [trans EXCEPT ![t].inq = Append(@, f)]
    /\ UNCHANGED <<cfg, hook, hcfg, started, ctxDone, proj, events, nInjected,
                   sup, readers, poller, nTicks, calls, hconn, encoder,
                   decoder, requestID, pending, connected, agentID, phase,
                   feedbackCh, consumed, nConn, enqBase, evClosed, stopped,
                   chClosed, mu, agent, prompts, mock, registry>>

\* The peer stops reading from the connection: the client's writes fill
\* the socket buffers.
PeerStall(t) ==
    /\ PeerUp(t)
    /\ ~trans[t].stalled
    /\ faults < MaxFaults
    /\ faults' = faults + 1
    /\ trans' = [trans EXCEPT ![t].stalled = TRUE]
    /\ UNCHANGED <<cfg, hook, hcfg, started, ctxDone, proj, events, nInjected,
                   sup, readers, poller, nTicks, calls, hconn, encoder,
                   decoder, requestID, pending, connected, agentID, phase,
                   feedbackCh, consumed, nConn, enqBase, evClosed, stopped,
                   chClosed, mu, agent, prompts, mock, registry>>

\* The peer reads again.
PeerResume(t) ==
    /\ PeerUp(t)
    /\ trans[t].stalled
    /\ trans' = [trans EXCEPT ![t].stalled = FALSE]
    /\ UNCHANGED <<cfg, hook, hcfg, started, ctxDone, proj, events, nInjected,
                   sup, readers, poller, nTicks, calls, hconn, encoder,
                   decoder, requestID, pending, connected, agentID, phase,
                   feedbackCh, consumed, nConn, faults, enqBase, evClosed,
                   stopped, chClosed, mu, agent, prompts, mock, registry>>

PeerClose(t) ==
    /\ PeerUp(t)
    /\ faults < MaxFaults
    /\ faults' = faults + 1
    /\ trans' = [trans EXCEPT ![t].pClosed = TRUE]
    /\ UNCHANGED <<cfg, hook, hcfg, started, ctxDone, proj, events, nInjected,
                   sup, readers, poller, nTicks, calls, hconn, encoder,
                   decoder, requestID, pending, connected, agentID, phase,
                   feedbackCh, consumed, nConn, enqBase, evClosed, stopped,
                   chClosed, mu, agent, prompts, mock, registry>>

----------------------------------------------------------------------------
(* The specification of the whole hook.                                     *)

\* The events and the item-list sizes of the whole-hook specifications.
MainEvents ==
    {ev \in AllEvents :
        /\ ev.Role \in {"user", "assistant"}
        /\ ev.Type \in {"created", "updated"}
        /\ ev.ToolCalls \in {<<>>, <<[ID |-> "t1", Name |-> "grep", Finished |-> FALSE]>>}
        /\ ev.ToolCalls # <<>> => ev.Type = "updated" /\ ev.Role = "assistant"}

MainBatches == {0, 2}

\* connect up to h.connected.Store(true), with its calls.
Handshake(slow) ==
    \/ SupTop \/ SupDialOk \/ SupInstall
    \/ CallAlloc(SUP) \/ CallWrite(SUP)
    \/ SupInitReturn(slow) \/ SupNotify \/ SupRegReturn(slow)

Supervisor(slow) ==
    Handshake(slow) \/ SupServeCancel \/ SupServeLost \/ SupBackoff

Reading == \E r \in Transports : ReaderTop(r) \/ ReaderFrame(r)

Reader == Reading \/ \E r \in Transports : ReaderEOF(r)

StatusCalls(slow) ==
    \E i \in 1..MaxTasks :
        CallAlloc(StatusTask(i)) \/ CallWrite(StatusTask(i)) \/ StatusReturn(i, slow)

Polling(slow, n) ==
    \/ PollTick(n) \/ CallAlloc(POLL) \/ CallWrite(POLL)
    \/ PollReturn(slow) \/ PollEnqueue

PeerAnswers(B) == \E t \in Transports : PeerAnswer(t, B)
PeerErrors == \E t \in Transports : PeerError(t)
PeerJunks == \E t \in Transports : PeerJunk(t)
PeerCloses == \E t \in Transports : PeerClose(t)
PeerRegistersOdd == \E t \in Transports : PeerRegisterOdd(t)
PeerStalls == \E t \in Transports : PeerStall(t)
PeerResumes == \E t \in Transports : PeerResume(t)

\* Shutdown by each of its triggers: the context, the closed subscription
\* channel, a direct call of Stop().
Shutdown ==
    \/ HostCancel \/ HostCloseEvents \/ HostStop
    \/ ProjectorStop \/ ProjectorClosed

\* The writes that were blocked and return.
Unblocks == SupNotifyUnblock \/ \E c \in Callers : CallUnblock(c)

Next ==
    \/ HostStart \/ Shutdown \/ HostInject(MainEvents, MaxEvents) \/ HostConsume
    \/ Supervisor(TRUE) \/ SupDialFail \/ Reader
    \/ ProjectorTake \/ StatusCalls(TRUE)
    \/ Polling(TRUE, MaxPolls) \/ PollExit
    \/ Unblocks
    \/ PeerAnswers(MainBatches) \/ PeerErrors \/ PeerJunks \/ PeerCloses
    \/ PeerStalls \/ PeerResumes \/ PeerRegistersOdd

Spec == Init /\ [][Next]_vars

(* The specifications below restrict Spec to the goroutines and the         *)
(* environment a group of properties is about: each next-state relation is  *)
(* a sub-relation of Next.                                                  *)

\* The connection lifecycle: supervisor, readers, shutdown, and a peer
\* that answers, fails and closes.
NextLife ==
    \/ HostStart \/ HostCancel \/ ProjectorStop
    \/ Supervisor(TRUE) \/ SupDialFail \/ Reader
    \/ PeerAnswers(MainBatches) \/ PeerErrors \/ PeerCloses

SpecLife == Init /\ [][NextLife]_vars

\* Reconnection: no shutdown; a peer that closes connections, accepts every
\* dial and answers every request it received while the connection is up.
\* A handshake call runs into its 30 s timeout only when the peer has
\* closed the connection. The Go scheduler runs every goroutine that can
\* take a step, and the peer answers: weak fairness of the supervisor, of
\* each reader and of the peer's answers.
PeerGone == sup.t \in Transports /\ trans[sup.t].pClosed

ConnectionLoop == Handshake(PeerGone) \/ SupServeLost \/ SupBackoff

ReadLoop(r) == ReaderTop(r) \/ ReaderFrame(r) \/ ReaderEOF(r)

NextReconnect ==
    \/ HostStart
    \/ ConnectionLoop
    \/ \E r \in Transports : ReadLoop(r)
    \/ PeerAnswers(MainBatches) \/ PeerCloses

SpecReconnect ==
    /\ Init /\ [][NextReconnect]_vars
    /\ WF_vars(ConnectionLoop)
    /\ \A r \in Transports : WF_vars(ReadLoop(r))
    /\ WF_vars(PeerAnswers(MainBatches))

\* The callers of call(): handshake, status reports and polls against a
\* peer that answers or returns errors, with timeouts of the tool calls.
NextCalls ==
    \/ HostStart \/ HostInject(MainEvents, MaxEvents)
    \/ Handshake(FALSE) \/ SupBackoff \/ Reader
    \/ ProjectorTake \/ StatusCalls(TRUE)
    \/ Polling(TRUE, MaxPolls)
    \/ PeerAnswers(MainBatches) \/ PeerErrors

SpecCalls == Init /\ [][NextCalls]_vars

\* Events and ticks around a lost connection: a peer that closes
\* connections and answers what it received; polls that return no items;
\* tool calls that wait for their answer.
NextDrop ==
    \/ HostStart \/ HostInject(MainEvents, MaxEvents)
    \/ ConnectionLoop \/ Reader
    \/ ProjectorTake \/ StatusCalls(FALSE)
    \/ PollTick(MaxPolls) \/ CallAlloc(POLL) \/ CallWrite(POLL) \/ PollReturn(FALSE)
    \/ PeerAnswers({0}) \/ PeerCloses

SpecDrop == Init /\ [][NextDrop]_vars

\* The pending map under every way a call can end.
NextPending ==
    \/ HostStart \/ HostCancel \/ HostInject(MainEvents, MaxEvents)
    \/ Supervisor(TRUE) \/ Reader
    \/ ProjectorTake \/ ProjectorStop \/ StatusCalls(TRUE)
    \/ PeerAnswers(MainBatches) \/ PeerErrors \/ PeerCloses

SpecPending == Init /\ [][NextPending]_vars

\* The feedback path: polls answered with an item list of every size of
\* interest, and a host that reads the channel when it likes.
FeedbackBatches == {0, 2, 2 * FeedbackCap}

NextFeedback ==
    \/ HostStart \/ HostConsume
    \/ Handshake(FALSE) \/ Reading
    \/ Polling(TRUE, MaxPolls)
    \/ PeerAnswers(FeedbackBatches)

SpecFeedback == Init /\ [][NextFeedback]_vars

\* The feedback path over MaxRounds successive polls, some of which
\* overflow the channel.
OrderBatches == {2, FeedbackCap + 1}

NextOrder ==
    \/ HostStart \/ HostConsume
    \/ Handshake(FALSE) \/ Reading
    \/ Polling(FALSE, MaxRounds)
    \/ PeerAnswers(OrderBatches)

SpecOrder == Init /\ [][NextOrder]_vars

\* The event loop under a burst of events, with a peer that answers the
\* reports when it likes or never. The Go scheduler runs the event loop
\* whenever it can receive: weak fairness of its step, and of nothing else.
\* Whether the loop can take the next event does not depend on what an
\* event says beyond whether it starts a report: a created user message
\* starts one, an updated user message starts none.
BurstEvents == {ev \in MainEvents : ev.Role = "user"}

NextTake ==
    \/ HostStart \/ HostInject(BurstEvents, MaxBurst)
    \/ Handshake(FALSE) \/ Reading
    \/ ProjectorTake \/ StatusCalls(TRUE)
    \/ PeerAnswers(MainBatches)

SpecTake == Init /\ [][NextTake]_vars /\ WF_vars(ProjectorTake)

\* The status projection of every message event.
NextProject ==
    \/ HostStart \/ HostInject(AllEvents, MaxEvents)
    \/ Handshake(FALSE) \/ Reading
    \/ ProjectorTake \/ StatusCalls(FALSE)
    \/ PeerAnswers(MainBatches)

SpecProject == Init /\ [][NextProject]_vars

\* Construction from every configuration.
InitConfig == \E c \in Configs : InitOf(c)

NextConfig ==
    \/ HostStart \/ HostCancel \/ ProjectorStop
    \/ Handshake(FALSE) \/ SupServeCancel \/ SupBackoff \/ Reader
    \/ PeerAnswers(MainBatches)

SpecConfig == InitConfig /\ [][NextConfig]_vars

\* Shutdown by each of its triggers, around a supervisor that connects,
\* serves and reconnects.
NextStop ==
    \/ HostStart \/ Shutdown
    \/ Supervisor(TRUE) \/ SupDialFail \/ Reader
    \/ PeerAnswers(MainBatches) \/ PeerCloses

SpecStop == Init /\ [][NextStop]_vars

\* Shutdown of every goroutine of the hook: the lifecycle with the poller
\* at its ticker.
NextShutdown == NextLife \/ PollExit

SpecShutdown == Init /\ [][NextShutdown]_vars

\* The reports of a burst of events of every kind, on their way to a peer
\* that answers.
NextReports ==
    \/ HostStart \/ HostInject(MainEvents, MaxBurst)
    \/ Handshake(FALSE) \/ Reading
    \/ ProjectorTake \/ StatusCalls(FALSE)
    \/ PeerAnswers(MainBatches)

SpecReports == Init /\ [][NextReports]_vars

\* Registration and re-registration against a peer whose register_agent
\* result carries an agent id or none.
NextRegister ==
    \/ HostStart
    \/ ConnectionLoop \/ Reader
    \/ PeerAnswers(MainBatches) \/ PeerRegistersOdd \/ PeerCloses

SpecRegister == Init /\ [][NextRegister]_vars

\* The supervisor against dials that fail, handshakes that fail and
\* connections that are lost, up to a shutdown. The timer of the reconnect
\* delay fires: weak fairness of that step.
NextRetry ==
    \/ HostStart \/ HostCancel \/ ProjectorStop
    \/ Supervisor(TRUE) \/ SupDialFail
    \/ \E r \in Transports : ReadLoop(r)
    \/ PeerAnswers(MainBatches) \/ PeerCloses

SpecRetry == Init /\ [][NextRetry]_vars /\ WF_vars(SupBackoff)

\* The routing of responses: the calls of the handshake and of two status
\* reports in flight together, with their timeouts, against a peer that answers, late or in
\* time, and sends frames nobody asked for.
NextRoute ==
    \/ HostStart \/ HostInject(BurstEvents, MaxBurst)
    \/ Handshake(TRUE) \/ Reader
    \/ ProjectorTake \/ StatusCalls(TRUE)
    \/ PeerAnswers(MainBatches) \/ PeerJunks

SpecRoute == Init /\ [][NextRoute]_vars

\* The connection attempts: the handshake with its timeouts and a context
\* that can be cancelled, against a peer that answers with results, with
\* JSON-RPC errors and with tool errors.
NextAttempt ==
    \/ HostStart \/ HostCancel
    \/ Handshake(TRUE) \/ SupBackoff \/ Reader
    \/ PeerAnswers(MainBatches) \/ PeerErrors

SpecAttempt == Init /\ [][NextAttempt]_vars

\* The agent-status hook under the messages of the host.
SpecAgent == Init /\ [][AgentHandleEvent]_vars

\* The recent-tools list of the agent-status hook under direct calls.
SpecRecent == Init /\ [][AgentAddRecentTool]_vars

\* The periodic-prompts hook: construction, Start, the cron callback and
\* the calls of SetEnabled that the tool and the dialog make.
SpecPrompts ==
    Init /\ [][\/ PromptsNewHook \/ PromptsStart
               \/ PromptsFire \/ PromptsExecute
               \/ PromptsSetEnabled]_vars

\* The mock LLM server under a test that configures it and sends chat
\* requests from two clients at once.
SpecMock ==
    Init /\ [][\/ MockSequence \/ MockOn
               \/ \E c \in DOMAIN mock.inReq : MockLog(c) \/ MockFindResponse(c)]_vars

\* The sub-agent registry with a goroutine that reloads and one that
\* enables and disables agents.
SpecRegistry == Init /\ [][RegistrySetEnabled \/ RegistryReloadAll]_vars

\* The lifecycle with a host that calls Start more than once.
NextStarts == NextLife \/ HostStartAgain

SpecStarts == Init /\ [][NextStarts]_vars

\* Shutdown around a peer that stops reading, and may read again.
NextStall ==
    \/ HostStart \/ HostCancel \/ ProjectorStop
    \/ Supervisor(TRUE) \/ CallUnblock(SUP) \/ SupNotifyUnblock
    \/ Reader
    \/ PeerAnswers(MainBatches) \/ PeerStalls \/ PeerResumes

SpecStall == Init /\ [][NextStall]_vars

----------------------------------------------------------------------------
(* Properties of the connection handshake.                                  *)

\* The handshake frames the peer received on transport t, in the order it
\* received them.
IsHandshake(f) ==
    f.method \in {"initialize", "initialized"} \/ f.tool = "register_agent"

HandshakeFrames(t) == SelectSeq(trans[t].out, IsHandshake)

\* The peer got initialize, initialized and register_agent on t in this
\* order, and answered both requests with a result that is no error.
HandshakeSeen(t) ==
    LET hs == HandshakeFrames(t) IN
    /\ Len(hs) = 3
    /\ hs[1].method = "initialize" /\ hs[1].id # 0
    /\ hs[2] = InitializedNotif
    /\ hs[3].method = "tools/call" /\ hs[3].tool = "register_agent" /\ hs[3].id # 0
    /\ <<hs[1].id, "result">> \in trans[t].ans
    /\ <<hs[3].id, "result">> \in trans[t].ans

\* C1: while h.connected is set, the peer of the connection that set it
\* has received initialize, then the initialized notification, then the
\* tools/call of register_agent, in that order, and has answered both
\* requests without error; the flag is never set before that.
C1_HandshakeBeforeConnected == connected => HandshakeSeen(sup.t)

\* The flag is set on a connection made after an earlier one was lost.
C1_Witness == connected /\ sup.pc = "serve" /\ sup.t = 2

\* The hook is connected over transport t and the peer has closed t.
PeerClosedConnected(t) ==
    connected /\ sup.pc = "serve" /\ sup.t = t /\ trans[t].pClosed

\* C3: once the peer has closed the transport the hook is connected over,
\* IsConnected() eventually is false, and eventually is true again over a
\* later transport on which the peer received and answered a new
\* handshake with its register_agent (fair scheduling, no shutdown, the
\* peer accepts the dial and answers).
C3_ReconnectsAfterPeerClose ==
    \A t \in Transports :
        /\ PeerClosedConnected(t) ~> ~connected
        /\ PeerClosedConnected(t) ~>
              (connected /\ sup.t > t /\ HandshakeSeen(sup.t))

\* The hook is connected over the second transport after the peer closed
\* the first one while the hook was serving on it.
C3_Witness ==
    /\ connected /\ sup.t = 2 /\ HandshakeSeen(2)
    /\ trans[1].pClosed /\ ~trans[1].cClosed

----------------------------------------------------------------------------
(* Properties of status reports and polls.                                  *)

\* The tool calls of the projector and the poller.
ToolCallers == Callers \ {SUP}

\* This step routes a tools/call result with isError to a tool caller.
ToolErrorRouted ==
    \E c \in ToolCallers :
        /\ calls[c].resp = <<>>
        /\ calls'[c].resp # <<>>
        /\ calls'[c].resp[1].kind = "toolerr"

\* This step is the return of a tool caller that was given a tools/call
\* result with isError.
ToolErrorReturned ==
    \E c \in ToolCallers :
        /\ calls[c].st # "none"
        /\ calls[c].resp # <<>>
        /\ calls[c].resp[1].kind = "toolerr"
        /\ calls'[c].st = "none"

\* This step leaves the connection as it is: the flag, the sockets, the
\* supervisor, the readers that run; the poller is back at its ticker or
\* where it was.
ConnectionKept ==
    /\ connected' = connected
    /\ hconn' = hconn /\ encoder' = encoder /\ decoder' = decoder
    /\ sup' = sup /\ proj' = proj
    /\ \A t \in Transports :
        /\ trans'[t].cClosed = trans[t].cClosed
        /\ trans'[t].pClosed = trans[t].pClosed
    /\ \A r \in Transports : readers'[r].pc = "exit" => readers[r].pc = "exit"
    /\ poller'.pc \in {poller.pc, "idle"}

\* C4: routing a tools/call result with isError to a report_status or a
\* get_pending_feedback call, and that call's return, fail only the call:
\* IsConnected() is unchanged, no socket is closed, no reader returns, the
\* supervisor stays where it is and the poller goes back to its ticker.
C4_ToolErrorIsolated ==
    [][(ToolErrorRouted \/ ToolErrorReturned) => ConnectionKept]_vars

\* On the first connection, still connected, a poll got its items after the
\* peer had answered an earlier tool call with isError.
C4_Witness ==
    /\ connected /\ sup.pc = "serve" /\ sup.t = 1
    /\ ~trans[1].cClosed /\ ~trans[1].pClosed
    /\ readers[1].pc # "exit"
    /\ poller.pc = "enq"
    /\ \E a \in trans[1].ans : a[2] = "toolerr" /\ a[1] < poller.id

\* The arguments of the report_status calls this step starts.
StatusIssued ==
    {calls'[c].req.args : c \in
        {c \in StatusTasks :
            /\ calls[c].st = "none" /\ calls'[c].st # "none"
            /\ calls'[c].req.method = "tools/call"
            /\ calls'[c].req.tool = "report_status"}}

\* The arguments the table of status reports prescribes for event ev.
Unfinished(ev) == {i \in 1..Len(ev.ToolCalls) : ~ev.ToolCalls[i].Finished}

StatusPrescribed(ev) ==
    IF ev.Type = "created" /\ ev.Role = "user"
    THEN {[status |-> <<"processing user input">>, progress |-> 0, details |-> <<>>]}
    ELSE IF ev.Type = "created" /\ ev.Role = "assistant"
    THEN {[status |-> <<"generating response">>, progress |-> 50, details |-> <<>>]}
    ELSE IF ev.Type = "updated" /\ ev.Role = "assistant" /\ Unfinished(ev) # {}
    THEN LET i == CHOOSE i \in Unfinished(ev) : \A j \in Unfinished(ev) : i <= j
             tc == ev.ToolCalls[i] IN
         {[status |-> <<"running tool: ", tc.Name>>, progress |-> 50,
           details |-> <<[tool |-> tc.Name, tool_id |-> tc.ID]>>]}
    ELSE IF ev.Type = "updated" /\ ev.Role = "assistant"
    THEN {[status |-> <<"response complete">>, progress |-> 100, details |-> <<>>]}
    ELSE {}

\* C5: the event loop, taking an event while connected, starts exactly the
\* report_status calls the table prescribes for it: one call with the
\* status, progress and details of the event's row, or none for an event
\* of no row.
C5_StatusTable ==
    [][(connected /\ Len(events') < Len(events)) =>
         StatusIssued = StatusPrescribed(Head(events))]_vars

\* A report is on its way for an assistant update whose first tool call is
\* finished and whose second is not.
C5_Witness ==
    \E c \in StatusTasks :
        /\ calls[c].st = "wait"
        /\ calls[c].req.tool = "report_status"
        /\ calls[c].req.args.status = <<"running tool: ", "ls">>
        /\ calls[c].req.args.details = <<[tool |-> "ls", tool_id |-> "t2"]>>

\* The number of events the event loop has received.
Taken == nInjected - Len(events)

\* C7: the subscription channel loses nothing but its head, to the event
\* loop, and every event the host injected is eventually received by the
\* event loop, whether the report_status calls of earlier events have
\* returned, are outstanding or are never answered.
C7_ProjectorNeverBlocks ==
    /\ [][\/ events' = events
          \/ events # <<>> /\ events' = Tail(events)
          \/ /\ Len(events') = Len(events) + 1
             /\ SubSeq(events', 1, Len(events)) = events]_vars
    /\ \A n \in 1..MaxBurst : (nInjected >= n) ~> (Taken >= n)

\* The second event was received while the report of the first was still
\* waiting for an answer the peer had not given.
C7_Witness ==
    /\ Taken = 2
    /\ calls[StatusTask(1)].st = "wait" /\ calls[StatusTask(1)].resp = <<>>
    /\ calls[StatusTask(1)].id \notin AnsweredIds(sup.t)
    /\ calls[StatusTask(2)].st # "none"

\* This step is the event loop taking an event, or a tick of the poller.
EventOrTickHandled == Len(events') < Len(events) \/ nTicks' > nTicks

\* C6: an event or a tick handled while IsConnected() is false writes no
\* frame, installs no pending request, starts no call and takes no request
\* id: it is dropped.
C6_DroppedWhenDisconnected ==
    [][(~connected /\ EventOrTickHandled) =>
         /\ trans' = trans /\ pending' = pending
         /\ calls' = calls /\ requestID' = requestID
         /\ poller' = poller]_vars

\* Before the first handshake was over an event and a tick were handled,
\* and nothing but the handshake was ever sent.
C6_Witness ==
    /\ ~connected /\ sup.pc = "reg" /\ sup.t = 1
    /\ nInjected > 0 /\ events = <<>> /\ nTicks > 0
    /\ Len(trans[1].out) = Len(HandshakeFrames(1))

----------------------------------------------------------------------------
(* Properties of the feedback channel.                                      *)

\* The items of the running (or last) loop over a poll's items that went
\* into the channel if the host read nothing since the loop began: as many
\* of the items handled so far as there was room for.
Fitted == 
    LET handled == poller.k - 1
        room == FeedbackCap - enqBase.len IN
    IF handled < room THEN handled ELSE room

\* C8: the feedback channel never holds more than FeedbackCap items; the
\* loop over a poll's items can always take its next step; and while the
\* host reads nothing, the channel is what it was when the loop began
\* followed by the leading items of the poll that fitted, the rest of the
\* handled items being dropped.
C8_ChannelBackpressure ==
    /\ Len(feedbackCh) <= FeedbackCap
    /\ poller.pc = "enq" => ENABLED PollEnqueue
    /\ (poller.id # 0 /\ enqBase.quiet) =>
          /\ Len(feedbackCh) = enqBase.len + Fitted
          /\ \A j \in 1..Fitted : feedbackCh[enqBase.len + j] = <<poller.id, j>>

\* A poll returned 20 items into the empty channel nobody read: the loop is
\* over and the channel holds the first 10.
C8_Witness ==
    /\ poller.pc = "idle" /\ poller.n = 2 * FeedbackCap /\ poller.k = poller.n + 1
    /\ enqBase.quiet /\ enqBase.len = 0
    /\ Len(feedbackCh) = FeedbackCap
    /\ feedbackCh[1] = <<poller.id, 1>>
    /\ feedbackCh[FeedbackCap] = <<poller.id, FeedbackCap>>

\* Item a comes before item b in the concatenation of the polls' lists:
\* an earlier poll, or the same poll and an earlier place.
Before(a, b) == a[1] < b[1] \/ (a[1] = b[1] /\ a[2] < b[2])

\* The peer returned item in the list it gave a get_pending_feedback.
ItemReturned(item) ==
    \E t \in Transports : \E i \in 1..Len(trans[t].out) :
        /\ trans[t].out[i].id = item[1]
        /\ trans[t].out[i].tool = "get_pending_feedback"
        /\ <<item[1], "result">> \in trans[t].ans
        /\ item[2] >= 1
        /\ \E n \in OrderBatches : item[2] <= n

\* C9: the item the host read last, then the items in the channel, then the
\* item the poller's loop handles next, come in the order of the
\* concatenation of the polls' lists, each one an item the peer returned:
\* what the host reads is a subsequence of that concatenation, without a
\* duplicate and without two items out of order.
C9_FeedbackOrder ==
    LET q == <<consumed>> \o feedbackCh
             \o (IF poller.pc = "enq" THEN << <<poller.id, poller.k>> >> ELSE <<>>) IN
    /\ \A i \in 1..(Len(q) - 1) : Before(q[i], q[i + 1])
    /\ \A i \in 2..Len(q) : ItemReturned(q[i])
    /\ consumed # NoItem => ItemReturned(consumed)

\* The host has read the first item of the second poll, after a first poll
\* whose list overflowed the channel.
C9_Witness ==
    /\ nTicks = 2 /\ consumed[2] = 1
    /\ \E a \in trans[1].ans :
        /\ a[1] < consumed[1]
        /\ \E i \in 1..Len(trans[1].out) :
            /\ trans[1].out[i].id = a[1]
            /\ trans[1].out[i].tool = "get_pending_feedback"
    /\ poller.id = consumed[1] /\ poller.n = FeedbackCap + 1

----------------------------------------------------------------------------
(* Properties of the pending map.                                           *)

\* No call() is in progress: the handshake calls, the poll and every
\* detached report_status have returned.
Quiescent == \A c \in Callers : calls[c].st = "none"

\* The ids of the calls that have installed their entry and not returned.
InFlight ==
    {calls[c].id : c \in {c \in Callers : calls[c].st \in {"blocked", "wait", "failed"}}}

\* C10: every entry of the pending map belongs to a call() that has not
\* returned; at every quiescent point the map is empty, whether the calls
\* ended by a response, an RPC error, a timeout, a cancellation, a failed
\* write or a closed transport.
C10_PendingBalance ==
    /\ pending \subseteq InFlight
    /\ Quiescent => pending = {}

\* Everything has returned after a shutdown, on the second connection, the
\* first having met a fault, with a report_status call made.
C10_Witness ==
    /\ Quiescent /\ pending = {}
    /\ ctxDone /\ sup.pc = "exit" /\ proj = "returned"
    /\ nConn = 2 /\ faults = MaxFaults
    /\ requestID >= 4 /\ nInjected > 0 /\ events = <<>>

----------------------------------------------------------------------------
(* Properties of construction.                                              *)

----------------------------------------------------------------------------
(* Properties of request ids.                                               *)

\* The ids of the requests the peer received on transport t, in the order
\* the client wrote them (notifications carry no id).
HasId(f) == f.id # 0

SubmittedIds(t) ==
    LET rs == SelectSeq(trans[t].out, HasId) IN [i \in 1..Len(rs) |-> rs[i].id]

\* C11: on every transport, the first connection and every later one, the
\* ids of the requests written on it are positive, strictly increasing and
\* start at 1.
C11_IdsFromOnePerTransport ==
    \A t \in Transports :
        LET ids == SubmittedIds(t) IN
        /\ ids # <<>> => ids[1] = 1
        /\ \A i \in 1..Len(ids) : ids[i] > 0
        /\ \A i \in 1..(Len(ids) - 1) : ids[i] < ids[i + 1]

\* This step appends one frame to what the peer receives on transport t.
FrameWritten(t) == Len(trans'[t].out) = Len(trans[t].out) + 1

WrittenFrame(t) == trans'[t].out[Len(trans'[t].out)]

\* After this step caller c waits for the response to request id.
WaitsFor(c, id) ==
    calls'[c].st = "wait" /\ calls'[c].id = id /\ calls'[c].resp = <<>>

\* C12: a step that writes a frame with method initialized writes it
\* without id, installs no pending entry and leaves nobody waiting who did
\* not wait before; a step that writes a frame with an id leaves the id in
\* the pending map and its caller waiting for the response.
C12_NotificationsHaveNoId ==
    [][\A t \in Transports : FrameWritten(t) =>
          /\ WrittenFrame(t).method = "initialized" =>
                /\ WrittenFrame(t).id = 0
                /\ pending' = pending
                /\ \A c \in Callers : calls'[c].st = "wait" => calls[c].st = "wait"
          /\ WrittenFrame(t).id # 0 =>
                /\ WrittenFrame(t).method # "initialized"
                /\ WrittenFrame(t).id \in pending'
                /\ \E c \in Callers : WaitsFor(c, WrittenFrame(t).id)]_vars

\* On the second connection the notification went out after initialize
\* was answered, and register_agent waits with its entry installed.
C12_Witness ==
    /\ sup.pc = "reg" /\ sup.t = 2
    /\ Len(trans[2].out) = 3
    /\ trans[2].out[2] = InitializedNotif
    /\ trans[2].out[3].id \in pending
    /\ calls[SUP].st = "wait" /\ calls[SUP].id = trans[2].out[3].id

----------------------------------------------------------------------------
(* Properties of shutdown.                                                  *)

\* Stop() has returned: the event loop of Start saw the shutdown and its
\* h.Stop() is over.
Stopped == ctxDone /\ proj = "returned"

\* C13: once shutdown was signalled and Stop() has returned, IsConnected()
\* is false, in every state from then on.
C13_StoppedStaysDisconnected == Stopped => ~connected

\* C14: once a call of Stop() has returned, whatever triggered it, no step
\* dials and no step writes a frame to a transport.
C14_StoppedIsTerminal ==
    [][stopped => /\ nConn' = nConn
                  /\ \A t \in Transports : ~FrameWritten(t)]_vars

\* C15: after the final shutdown the feedback channel is closed, so that a
\* host that has drained it reads end-of-stream; before any shutdown the
\* channel is open.
C15_FeedbackChClosedOnShutdown ==
    /\ Stopped => chClosed
    /\ ~(ctxDone \/ stopped) => ~chClosed

\* This step is a call of Stop() running to its end: the event loop
\* returning through it, or the host's own call.
StopStep ==
    \/ proj = "loop" /\ proj' = "returned"
    \/ ~stopped /\ stopped'
    \/ hconn # NoTransport /\ hconn' = NoTransport

\* C16: a Stop() made while requests are pending removes every pending
\* slot in the same step, and every call() that waited is released by it.
C16_StopCancelsPending ==
    [][StopStep =>
          /\ pending' = {}
          /\ \A c \in Callers : calls[c].st = "wait" => calls'[c].st # "wait"]_vars

\* C17: Stop() always returns: whenever the event loop has seen the
\* shutdown and calls Stop(), Stop() can run to its end, also while the
\* peer has stopped reading and a write is blocked inside call().
C17_StopAlwaysReturns == (proj = "loop" /\ ctxDone) => ENABLED ProjectorStop

\* The supervisor, the poller, the event loop and every reader started
\* have returned.
Terminated ==
    /\ sup.pc = "exit" /\ poller.pc = "exit" /\ proj = "returned"
    /\ \A r \in Transports : readers[r].pc \in {"none", "exit"}

\* The client has closed every transport it opened.
Released == \A t \in 1..nConn : trans[t].cClosed

\* A goroutine of the hook can take a step.
HookCanStep ==
    ENABLED (Supervisor(TRUE) \/ SupDialFail \/ Reader \/ ProjectorStop \/ PollExit)

\* C18: after the context is cancelled the goroutines of the hook go on
\* until the supervisor, the poller, the event loop and every reader have
\* returned, and by then the client has closed every transport it opened.
C18_ShutdownReleasesAll ==
    ctxDone => \/ Terminated /\ Released
               \/ ~Terminated /\ HookCanStep

----------------------------------------------------------------------------
(* Properties of Start.                                                     *)

\* The goroutines of each kind that exist: those of the first Start as the
\* model follows them, and one of each kind for every further call (none
\* of them returns before ctx is cancelled).
Supervisors ==
    (IF sup.pc \in {"none", "exit"} THEN 0 ELSE 1) + (IF started > 1 THEN started - 1 ELSE 0)

Pollers ==
    (IF poller.pc \in {"none", "exit"} THEN 0 ELSE 1) + (IF started > 1 THEN started - 1 ELSE 0)

Projectors ==
    (IF proj = "loop" THEN 1 ELSE 0) + (IF started > 1 THEN started - 1 ELSE 0)

\* C19: however often Start is called, while the context is live there is
\* at most one supervisor, one poller and one event loop.
C19_StartIdempotent ==
    ~ctxDone => Supervisors <= 1 /\ Pollers <= 1 /\ Projectors <= 1

----------------------------------------------------------------------------
(* Properties of the order of status reports.                               *)

\* The report of the i-th event has reached the peer and waits for its
\* answer; its place among the frames the peer received.
ReportSent(i) ==
    /\ calls[StatusTask(i)].st = "wait"
    /\ \E p \in 1..Len(trans[sup.t].out) : trans[sup.t].out[p].id = calls[StatusTask(i)].id

ReportPlace(i) ==
    CHOOSE p \in 1..Len(trans[sup.t].out) : trans[sup.t].out[p].id = calls[StatusTask(i)].id

\* C20: with the hook connected, the report_status calls reach the peer in
\* the order of the events that produced them: the report of an earlier
\* event is never behind the report of a later one.
C20_ReportsInEventOrder ==
    \A i, j \in 1..MaxTasks :
        (i < j /\ ReportSent(j)) =>
            /\ calls[StatusTask(i)].st \notin {"alloc", "write"}
            /\ ReportSent(i) => ReportPlace(i) < ReportPlace(j)

----------------------------------------------------------------------------
(* Properties of registration.                                              *)

\* This step is registerAgent returning nil: the registration succeeded.
Registered == sup.pc = "reg" /\ sup'.pc = "serve"

\* C21: after every successful registration, the first and each later one,
\* h.agentID is the agent id the result text of that registration carries,
\* and is empty when the text is not JSON or has no agent_id.
C21_AgentIdFromRegistration ==
    [][Registered => agentID' = ParseAgentID(calls[SUP].resp[1].text)]_vars

----------------------------------------------------------------------------
(* Properties of the defaults.                                              *)

\* C22: a hook constructed from the empty Config exists and has the
\* endpoint localhost:9090, the role coder and a poll interval of 5
\* seconds.
C22_DefaultConfig ==
    cfg = NoConfig =>
        /\ NewTempotownHook(cfg).hook = "hook"
        /\ hook = "hook"
        /\ hcfg.Endpoint = "localhost:9090"
        /\ hcfg.Role = "coder"
        /\ hcfg.PollIntervalSeconds = 5

----------------------------------------------------------------------------
(* Properties of the reconnect delay.                                       *)

\* The steps of one connection attempt that goes well.
ForwardSteps ==
    {<<"top", "dial">>, <<"dial", "install">>, <<"install", "init">>,
     <<"init", "notify">>, <<"notify", "reg">>, <<"reg", "serve">>}

\* This step ends a connection attempt or a connection: the dial or the
\* handshake failed, or the connection was lost.
AttemptEnds ==
    /\ sup.pc \in {"dial", "init", "reg", "serve"}
    /\ sup'.pc # sup.pc
    /\ <<sup.pc, sup'.pc>> \notin ForwardSteps

\* C23: a dial is the first one or follows a reconnect delay that ran to
\* its end; a failed attempt and a lost connection start the delay (or end
\* the supervisor, when the context is cancelled); and every delay is
\* followed by another dial unless the context is cancelled.
C23_RedialAfterDelay ==
    /\ [][(sup.pc # "dial" /\ sup'.pc = "dial") =>
             \/ sup.pc = "backoff" /\ ~ctxDone
             \/ sup.pc = "top" /\ nConn = 0 /\ faults = 0]_vars
    /\ [][AttemptEnds =>
             \/ sup'.pc = "backoff"
             \/ sup'.pc = "exit" /\ ctxDone]_vars
    /\ (sup.pc = "backoff") ~> (sup.pc = "dial" \/ ctxDone)

\* The second dial was made after the delay that followed a failed dial.
C23_Witness ==
    /\ sup.pc = "install" /\ sup.t = 1 /\ nConn = 1
    /\ faults = 1 /\ ~ctxDone
    /\ \A t \in Transports : ~trans[t].pClosed

----------------------------------------------------------------------------
(* Properties of the reader.                                                *)

\* This step is a reader returning from Decode with an error: the transport
\* was closed, or the frame was malformed.
ReaderExits ==
    \E r \in Transports : readers[r].pc = "decode" /\ readers'[r].pc = "exit"

\* C24: the step in which a reader exits on a closed transport or a
\* malformed frame fails every pending request: the pending map is empty
\* after it and no caller is left waiting for a response.
C24_ReaderExitFailsPending ==
    [][ReaderExits =>
          /\ pending' = {}
          /\ \A c \in Callers : calls[c].st = "wait" /\ calls[c].resp = <<>>
                                   => calls'[c].st # "wait"]_vars

\* This step hands caller c the response to its request: the request's
\* entry leaves the pending map while the call goes on.
Delivery(c) ==
    /\ calls[c].st # "none" /\ calls'[c].st # "none"
    /\ calls[c].id \in pending /\ calls[c].id \notin pending'

Received(r) ==
    /\ readers[r].pc = "decode" /\ readers'[r].pc # "decode"
    /\ ~trans[readers[r].d].cClosed
    /\ trans[readers[r].d].inq # <<>>

\* Frame f answers no pending request: it has no id, its id is a string, or
\* no entry of the pending map has its id.
Unmatched(f) == f.id = 0 \/ f.kind = "strid" \/ f.id \notin pending

C27_IdsIncreaseOnWire ==
    \A t \in Transports :
        \A i, j \in 1..Len(SubmittedIds(t)) :
            i < j => SubmittedIds(t)[i] < SubmittedIds(t)[j]

\* In this step the call of the handshake, initialize or register_agent,
\* returns to connect().
HandshakeReturn ==
    /\ sup.pc \in {"init", "reg"}
    /\ calls[SUP].st # "none" /\ calls'[SUP].st = "none"

\* The call of the handshake has a response in its slot that is neither a
\* JSON-RPC error nor a tool error.
GoodResponse ==
    /\ calls[SUP].resp # <<>>
    /\ calls[SUP].resp[1].kind \notin {"error", "toolerr"}

\* C28: when initialize or register_agent returns, connect() goes on only
\* with a good response; on an RPC error, a tool error, a timeout or a
\* cancellation the transport of the attempt is closed by the client, the
\* connection flag is false and the supervisor is in its delay, and while it
\* is there no dial happens and the flag stays false.
C28_FailedHandshakeBacksOff ==
    [][/\ HandshakeReturn =>
            IF sup'.pc \in {"notify", "serve"}
            THEN GoodResponse
            ELSE /\ trans'[sup.t].cClosed
                 /\ ~connected'
                 /\ sup'.pc = "backoff"
       /\ sup.pc = "backoff" => nConn' = nConn /\ ~connected']_vars

\* One attempt failed at initialize on a JSON-RPC error and the next one
\* failed at register_agent: both transports are closed by the client and
\* the supervisor is in its delay, not connected.
C28_Witness ==
    /\ sup.pc = "backoff" /\ ~connected /\ ~ctxDone
    /\ nConn = 2
    /\ trans[1].cClosed /\ trans[2].cClosed
    /\ \E i \in 1..Len(trans[sup.t].out) : trans[sup.t].out[i].tool = "register_agent"

\* The transports the client dialled and has not closed.
OpenTransports == {t \in 1..nConn : ~trans[t].cClosed}

\* C29: the client closes the transport whose reader has exited before it
\* dials again: it never holds more than one transport that it has not
\* closed.
C29_OneOpenTransport == Cardinality(OpenTransports) <= 1

\* The peer answered a register_agent request on transport t with a result.
RegisteredOn(t) ==
    \E i \in 1..Len(trans[t].out) :
        /\ trans[t].out[i].tool = "register_agent"
        /\ <<trans[t].out[i].id, "result">> \in trans[t].ans

\* C30: whenever IsConnected() is true the hook has a transport that the
\* client has not closed, the reader started for that transport is running,
\* and register_agent succeeded on it.
C30_ConnectedImpliesLive ==
    connected =>
        /\ hconn # NoTransport
        /\ ~trans[hconn].cClosed
        /\ readers[hconn].pc \in {"top", "decode"}
        /\ RegisteredOn(hconn)

-----------------------------------------------------------------------------
(* Properties of the readers and of the order of frames on a transport.     *)

\* C31: a reader that is in Decode reads the transport of the connection
\* attempt that started it, so no two readers decode from one transport.
C31_OneReaderPerTransport ==
    \A r \in Transports :
        readers[r].pc = "decode" =>
            /\ readers[r].d = r
            /\ \A r2 \in Transports \ {r} :
                  readers[r2].pc = "decode" => readers[r2].d # readers[r].d

\* Frame q is a call of one of the tools of the connected state.
ConnectedCall(q) == q.tool \in {"report_status", "get_pending_feedback"}

\* C32: the first frame written on a transport is initialize, and a
\* report_status or get_pending_feedback call is written on a transport
\* only after register_agent succeeded on that transport.
C32_HandshakeBeforeCalls ==
    [][\A t \in Transports :
          FrameWritten(t) =>
              /\ trans[t].out = <<>> => WrittenFrame(t).method = "initialize"
              /\ ConnectedCall(WrittenFrame(t)) => RegisteredOn(t)]_vars

\* The steps of call() and of its return to caller c, with the timer of the
\* call running.
CallSteps(c) ==
    \/ CallAlloc(c) \/ CallWrite(c)
    \/ c = SUP /\ (SupInitReturn(TRUE) \/ SupRegReturn(TRUE))
    \/ c = POLL /\ PollReturn(TRUE)
    \/ \E i \in 1..MaxTasks : c = StatusTask(i) /\ StatusReturn(i, TRUE)

\* C33: a call in progress can always take its next step by itself, its
\* timeout if nothing else: whatever the peer does, every call returns.
C33_CallsReturn ==
    \A c \in Callers : calls[c].st # "none" => ENABLED CallSteps(c)

\* C34: the slot of every entry of the pending map is empty, so the send of
\* a delivery finds room and the reader leaves its critical section at
\* once; the mutex is held across steps only by a writer inside Encode,
\* never by the reader.
C34_DeliveryNeverBlocks ==
    /\ \A c \in Callers : calls[c].id \in pending => calls[c].resp = <<>>
    /\ mu = "held" =>
          \/ sup.pc = "notifying"
          \/ \E c \in Callers : calls[c].st = "blocked"

\* A caller has its response in its slot and has not returned, and the next
\* frame for the reader is a second response with the same id.
C34_Witness ==
    \E c \in Callers : \E r \in Transports :
        /\ calls[c].resp # <<>>
        /\ readers[r].pc = "decode"
        /\ trans[readers[r].d].inq # <<>>
        /\ Head(trans[readers[r].d].inq).id = calls[c].id
        /\ Head(trans[readers[r].d].inq).kind = "result"

-----------------------------------------------------------------------------
(* Properties of the agent-status hook.                                     *)

\* This step is a call of handleEvent with a message of the given type and
\* role.
AgentHandled(type, role) ==
    /\ agent'.n = agent.n + 1
    /\ agent'.msg.Type = type
    /\ agent'.msg.Role = role

\* The tool calls of the message handled in this step.
HandledCalls == agent'.msg.ToolCalls

UnfinishedNames == {HandledCalls[i].Name : i \in {j \in 1..Len(HandledCalls) : ~HandledCalls[j].Finished}}

\* C35: the status follows the message events: Created/user gives thinking,
\* the task and no active tool; Created/assistant gives working with tool
\* calls and idle without; Created/tool gives thinking and no active tool;
\* Updated/assistant with an unfinished tool call gives working with an
\* unfinished tool active; Updated/assistant with tool calls that are all
\* finished gives thinking and no active tool.
C35_StatusFollowsEvents ==
    [][/\ AgentHandled("created", "user") =>
            /\ agent'.currentStatus = "thinking"
            /\ agent'.currentTask = truncateString(agent'.msg.Content, 100)
            /\ agent'.activeTool = ""
       /\ AgentHandled("created", "assistant") =>
            agent'.currentStatus = IF HandledCalls # <<>> THEN "working" ELSE "idle"
       /\ AgentHandled("created", "tool") =>
            /\ agent'.currentStatus = "thinking"
            /\ agent'.activeTool = ""
       /\ AgentHandled("updated", "assistant") /\ UnfinishedNames # {} =>
            /\ agent'.currentStatus = "working"
            /\ agent'.activeTool \in UnfinishedNames
       /\ AgentHandled("updated", "assistant") /\ UnfinishedNames = {}
              /\ HandledCalls # <<>> =>
            /\ agent'.currentStatus = "thinking"
            /\ agent'.activeTool = ""]_vars

\* The list keeps the RecentCap last entries of s.
RECURSIVE LastEntries(_)
LastEntries(s) == IF Len(s) > RecentCap THEN LastEntries(Tail(s)) ELSE s

\* C36: addRecentTool(name) leaves the list as it is when name is its last
\* entry and otherwise appends name and keeps the 10 last entries; the list
\* has at most 10 entries and no two adjacent entries are equal.
C36_RecentToolsBounded ==
    [][(agent'.n = agent.n + 1 /\ agent'.msg.Type = "add") =>
          LET r == agent.recentTools
              name == agent'.msg.Name
              after == agent'.recentTools IN
          /\ after = IF Len(r) > 0 /\ r[Len(r)] = name THEN r
                     ELSE LastEntries(Append(r, name))
          /\ Len(after) <= RecentCap
          /\ \A i \in 1..(Len(after) - 1) : after[i] # after[i + 1]]_vars

-----------------------------------------------------------------------------
(* Properties of the periodic-prompts hook.                                 *)

C38_SetEnabledReturns ==
    /\ prompts.set # "overflow"
    /\ prompts.set = "returned" => prompts.enabled = prompts.arg

-----------------------------------------------------------------------------
(* Properties of the mock LLM server.                                       *)

\* C39: with a sequence configured, the request that is answered i-th since
\* Sequence() gets the i-th entry, so that no entry answers two requests,
\* and gets the default once the entries are used up, whatever the handlers
\* would match.
C39_SequenceInOrder ==
    [][(Len(mock.callSequence) > 0 /\ Len(mock'.given) = Len(mock.given) + 1) =>
          mock'.given[Len(mock'.given)].resp =
              IF Len(mock'.given) <= Len(mock.callSequence)
              THEN mock.callSequence[Len(mock'.given)]
              ELSE "default"]_vars

\* Two requests were in the handler at once and were answered in the
\* reverse of the order of the log, with the two entries of the sequence;
\* a third request, which a handler matches, got the default.
C39_Witness ==
    /\ mock.callSequence = <<"first", "second">>
    /\ mock.handlers # <<>> /\ mock.handlers[1].contains = ""
    /\ Len(mock.given) = 3
    /\ mock.given[1].to = "c2" /\ mock.given[2].to = "c1"
    /\ mock.requests = <<"hi", "yo", "hi">>
    /\ mock.given[3].resp = "default"

-----------------------------------------------------------------------------
(* Properties of the sub-agent registry.                                    *)

\* C40: outside a reload every agent of the registry has the Enabled value
\* most recently set for it, so an agent that is there before and after
\* ReloadAll comes out of it with that value, also when SetEnabled ran
\* during the reload.
C40_ReloadPreservesEnabled ==
    registry.reload = "idle" =>
        \A n \in DOMAIN registry.agents : registry.agents[n] = registry.last[n]

====
